---- MODULE Spec2Model ----
(***************************************************************************)
(* Model of the Alliance catalog -> Shopify CSV transformer                *)
(* (src/preorder_transformer.py).                                          *)
(*                                                                         *)
(* Python values are tagged records: a str carries its characters as a     *)
(* sequence of one-character strings, a float is finite (a scaled          *)
(* integer), nan or +/-inf, and None is its own tag.  Money is counted in  *)
(* units of 1/10000 dollar, so that 0.77 x (a price in whole cents) is an  *)
(* integer and the arithmetic of calculate_pricing is exact.               *)
(***************************************************************************)
EXTENDS Integers, Sequences, FiniteSets, TLC

\* ------------------------------------------------------------------ bounds
\* Longest catalog (number of rows of alliance_df) a run is given.
MaxRecords == 3
\* Largest MSRP, in cents, handed to calculate_pricing on its own.
MaxCents == 5400
\* Most negative MSRP, in cents (as a magnitude), handed to calculate_pricing.
MinCentsBelowZero == 300

\* ------------------------------------------------------------ Python values
\* One dollar in money units.
Unit == 10000

Str(s) == [t |-> "str", s |-> s, k |-> "fin", v |-> 0]
Fin(v) == [t |-> "float", s |-> <<>>, k |-> "fin", v |-> v]
NaN == [t |-> "float", s |-> <<>>, k |-> "nan", v |-> 0]
Inf(sign) == [t |-> "float", s |-> <<>>, k |-> "inf", v |-> sign]
None == [t |-> "none", s |-> <<>>, k |-> "fin", v |-> 0]

\* pd.isna(value) or value is None
IsNa(value) == value.t = "none" \/ (value.t = "float" /\ value.k = "nan")

\* bool(value): '' and 0.0 and None are falsy; nan, inf and every datetime
\* are truthy.
Truthy(value) ==
    CASE value.t = "none" -> FALSE
      [] value.t = "datetime" -> TRUE
      [] value.t = "str" -> value.s # <<>>
      [] OTHER -> ~(value.k = "fin" /\ value.v = 0)

Whitespace == {" "}
Digits == {"0", "1", "2", "3", "4", "5", "6", "7", "8", "9"}
DigitVal ==
    [c \in Digits \cup Whitespace |->
        CASE c = "0" -> 0 [] c = "1" -> 1 [] c = "2" -> 2 [] c = "3" -> 3
          [] c = "4" -> 4 [] c = "5" -> 5 [] c = "6" -> 6 [] c = "7" -> 7
          [] c = "8" -> 8 [] c = "9" -> 9 [] OTHER -> 0]

RECURSIVE LStrip(_)
LStrip(s) == IF s # <<>> /\ Head(s) \in Whitespace THEN LStrip(Tail(s)) ELSE s

RECURSIVE RStrip(_)
RStrip(s) ==
    IF s # <<>> /\ s[Len(s)] \in Whitespace
    THEN RStrip(SubSeq(s, 1, Len(s) - 1))
    ELSE s

\* str.strip()
Strip(s) == RStrip(LStrip(s))

LowerChar(c) ==
    CASE c = "N" -> "n" [] c = "A" -> "a" [] c = "I" -> "i" [] c = "F" -> "f"
      [] c = "V" -> "v" [] c = "Y" -> "y" [] c = "L" -> "l" [] c = "P" -> "p"
      [] c = "C" -> "c" [] c = "D" -> "d" [] c = "T" -> "t" [] c = "S" -> "s"
      [] c = "G" -> "g" [] c = "H" -> "h" [] c = "E" -> "e" [] c = "B" -> "b"
      [] c = "O" -> "o" [] c = "R" -> "r" [] c = "M" -> "m" [] c = "U" -> "u"
      [] c = "J" -> "j" [] c = "K" -> "k" [] c = "Q" -> "q" [] c = "W" -> "w"
      [] c = "X" -> "x" [] c = "Z" -> "z"
      [] OTHER -> c

\* str.lower()
Lower(s) == [i \in 1..Len(s) |-> LowerChar(s[i])]

\* ---------------------------------------------------------------- dates
\* datetime.strptime: the format is compiled to a regular expression whose
\* directives are ordered alternatives (first alternative that lets the rest
\* of the pattern match wins); a blank in the format is \s+; the match must
\* consume the whole string; datetime() then validates the field values.
D19 == Digits \ {"0"}
DirectiveAlts(dir) ==
    CASE dir = "%Y" -> << <<Digits, Digits, Digits, Digits>> >>
      [] dir = "%y" -> << <<Digits, Digits>> >>
      [] dir = "%m" -> << <<{"1"}, {"0", "1", "2"}>>, <<{"0"}, D19>>, <<D19>> >>
      [] dir = "%d" -> << <<{"3"}, {"0", "1"}>>, <<{"1", "2"}, Digits>>,
                          <<{"0"}, D19>>, <<D19>>, <<{" "}, D19>> >>
      [] dir = "%H" -> << <<{"2"}, {"0", "1", "2", "3"}>>,
                          <<{"0", "1"}, Digits>>, <<Digits>> >>
      [] dir = "%M" -> << <<{"0", "1", "2", "3", "4", "5"}, Digits>>, <<Digits>> >>
      [] dir = "%S" -> << <<{"6"}, {"0", "1"}>>,
                          <<{"0", "1", "2", "3", "4", "5"}, Digits>>, <<Digits>> >>
      [] OTHER -> << >>
Directives == {"%Y", "%y", "%m", "%d", "%H", "%M", "%S"}

MatchesAt(alt, s, pos) ==
    /\ pos + Len(alt) - 1 <= Len(s)
    /\ \A j \in 1..Len(alt) : s[pos + j - 1] \in alt[j]

RECURSIVE NumAt(_, _, _)
NumAt(s, pos, n) ==
    IF n = 0 THEN 0
    ELSE NumAt(s, pos, n - 1) * 10 + DigitVal[s[pos + n - 1]]

RECURSIVE SkipBlanks(_, _)
SkipBlanks(s, pos) ==
    IF pos <= Len(s) /\ s[pos] \in Whitespace THEN SkipBlanks(s, pos + 1) ELSE pos

NoMatch == [ok |-> FALSE, end |-> 0, f |-> <<>>]
NoFields == [d \in Directives |-> -1]

RECURSIVE RegexMatch(_, _, _, _)
RECURSIVE TryAlts(_, _, _, _, _, _)
RegexMatch(fmt, s, pos, fields) ==
    IF fmt = <<>> THEN [ok |-> TRUE, end |-> pos, f |-> fields]
    ELSE LET h == Head(fmt) IN
        IF h \in Directives
        THEN TryAlts(DirectiveAlts(h), 1, fmt, s, pos, fields)
        ELSE IF h = " "
        THEN IF SkipBlanks(s, pos) > pos
             THEN RegexMatch(Tail(fmt), s, SkipBlanks(s, pos), fields)
             ELSE NoMatch
        ELSE IF pos <= Len(s) /\ s[pos] = h
             THEN RegexMatch(Tail(fmt), s, pos + 1, fields)
             ELSE NoMatch
TryAlts(alts, a, fmt, s, pos, fields) ==
    IF a > Len(alts) THEN NoMatch
    ELSE LET alt == alts[a]
             rest == IF MatchesAt(alt, s, pos)
                     THEN RegexMatch(Tail(fmt), s, pos + Len(alt),
                              [fields EXCEPT ![Head(fmt)] = NumAt(s, pos, Len(alt))])
                     ELSE NoMatch
         IN IF rest.ok THEN rest ELSE TryAlts(alts, a + 1, fmt, s, pos, fields)

IsLeap(y) == (y % 4 = 0 /\ y % 100 # 0) \/ y % 400 = 0
DaysInMonth(y, m) ==
    CASE m \in {4, 6, 9, 11} -> 30
      [] m = 2 -> IF IsLeap(y) THEN 29 ELSE 28
      [] OTHER -> 31

Field(f, dir, default) == IF f[dir] = -1 THEN default ELSE f[dir]

TwoDigitYearIn1900s(yy) == 1900 + yy
\* %y: values 69-99 are 1969-1999, values 0-68 are 2000-2068.
TwoDigitYear(yy) == IF yy < 69 THEN 2000 + yy ELSE 1900 + yy

\* datetime.strptime(s, fmt): a datetime record, or None for ValueError.
Strptime(s, fmt) ==
    LET r == RegexMatch(fmt, s, 1, NoFields) IN
    IF ~r.ok \/ r.end # Len(s) + 1 THEN None
    ELSE LET year == IF r.f["%y"] # -1
                     THEN TwoDigitYear(r.f["%y"])
                     ELSE Field(r.f, "%Y", 1900)
             month == Field(r.f, "%m", 1)
             day == Field(r.f, "%d", 1)
             second == Field(r.f, "%S", 0)
         IN IF year < 1 \/ day > DaysInMonth(year, month) \/ second > 59 THEN None
            ELSE [t |-> "datetime", y |-> year, m |-> month, d |-> day,
                  H |-> Field(r.f, "%H", 0), M |-> Field(r.f, "%M", 0), S |-> second]

\* datetime.date()
DateOf(dt) == <<dt.y, dt.m, dt.d>>

DateOnlyFormats ==
    << <<"%Y", "-", "%m", "-", "%d">>,
       <<"%m", "/", "%d", "/", "%Y">>,
       <<"%m", "-", "%d", "-", "%Y">>,
       <<"%Y", "%m", "%d">>,
       <<"%m", "/", "%d", "/", "%y">> >>
date_formats ==
    << <<"%Y", "-", "%m", "-", "%d", " ", "%H", ":", "%M", ":", "%S">>,
       <<"%Y", "-", "%m", "-", "%d">>,
       <<"%m", "/", "%d", "/", "%Y", " ", "%H", ":", "%M", ":", "%S">>,
       <<"%m", "/", "%d", "/", "%Y">>,
       <<"%m", "-", "%d", "-", "%Y">>,
       <<"%Y", "%m", "%d">>,
       <<"%m", "/", "%d", "/", "%y">> >>

RECURSIVE TryFormats(_, _)
TryFormats(s, i) ==
    IF i > Len(date_formats) THEN None
    ELSE LET r == Strptime(s, date_formats[i]) IN
         IF r.t # "none" THEN r ELSE TryFormats(s, i + 1)

parse_avail_date(avail_dt_str) ==
    IF ~Truthy(avail_dt_str) \/ IsNa(avail_dt_str) THEN None
    ELSE LET s == Strip(avail_dt_str.s) IN
         IF s = <<>> \/ Lower(s) = <<"n", "a", "n">> THEN None
         ELSE TryFormats(s, 1)

target_date_formats ==
    << <<"%Y", "-", "%m", "-", "%d">>,
       <<"%m", "/", "%d", "/", "%Y">>,
       <<"%m", "-", "%d", "-", "%Y">>,
       <<"%Y", "%m", "%d">>,
       <<"%m", "/", "%d", "/", "%y">> >>
ValueError == [t |-> "ValueError"]
RECURSIVE TryTargetFormats(_, _)
TryTargetFormats(s, i) ==
    IF i > Len(target_date_formats) THEN ValueError
    ELSE LET r == Strptime(s, target_date_formats[i]) IN
         IF r.t # "none" THEN r ELSE TryTargetFormats(s, i + 1)

\* parse_target_date(date_string): a datetime, None for an empty string,
\* ValueError when no format matches
parse_target_date(date_string) ==
    IF date_string.s = <<>> THEN None ELSE TryTargetFormats(date_string.s, 1)

DigitChar == <<"0", "1", "2", "3", "4", "5", "6", "7", "8", "9">>
Pad2(n) == <<DigitChar[((n \div 10) % 10) + 1], DigitChar[(n % 10) + 1]>>
Pad4(n) == Pad2(n \div 100) \o Pad2(n % 100)

\* datetime.strftime(fmt) for the directives of date_formats (years of four
\* digits); any other element of the format is copied.
RECURSIVE Strftime(_, _)
Strftime(dt, fmt) ==
    IF fmt = <<>> THEN <<>>
    ELSE LET h == Head(fmt)
             out == CASE h = "%Y" -> Pad4(dt.y)
                      [] h = "%y" -> Pad2(dt.y % 100)
                      [] h = "%m" -> Pad2(dt.m)
                      [] h = "%d" -> Pad2(dt.d)
                      [] h = "%H" -> Pad2(dt.H)
                      [] h = "%M" -> Pad2(dt.M)
                      [] h = "%S" -> Pad2(dt.S)
                      [] OTHER -> <<h>>
         IN out \o Strftime(dt, Tail(fmt))

\* ---------------------------------------------------------- create_handle
LowerLetters ==
    {"a", "b", "c", "d", "e", "f", "g", "h", "i", "j", "k", "l", "m",
     "n", "o", "p", "q", "r", "s", "t", "u", "v", "w", "x", "y", "z"}
UpperLetters ==
    {"A", "B", "C", "D", "E", "F", "G", "H", "I", "J", "K", "L", "M",
     "N", "O", "P", "Q", "R", "S", "T", "U", "V", "W", "X", "Y", "Z"}

\* safe_str(value): '' for a missing value, else the stripped text.
safe_str(value) == IF IsNa(value) THEN <<>> ELSE Strip(value.s)

\* '-'.join(parts)
RECURSIVE JoinDash(_)
JoinDash(parts) ==
    IF parts = <<>> THEN <<>>
    ELSE IF Len(parts) = 1 THEN parts[1]
    ELSE parts[1] \o <<"-">> \o JoinDash(Tail(parts))

\* [part for part in handle_parts if part]
RECURSIVE NonEmptyParts(_)
NonEmptyParts(parts) ==
    IF parts = <<>> THEN <<>>
    ELSE IF Head(parts) = <<>> THEN NonEmptyParts(Tail(parts))
    ELSE <<Head(parts)>> \o NonEmptyParts(Tail(parts))

\* re.sub(r'[^a-zA-Z0-9-]', '-', s)
ReplaceSpecial(s) ==
    [i \in 1..Len(s) |->
        IF s[i] \in LowerLetters \cup UpperLetters \cup Digits \cup {"-"}
        THEN s[i] ELSE "-"]

\* re.sub(r'-+', '-', s)
RECURSIVE CollapseDashes(_)
CollapseDashes(s) ==
    IF Len(s) < 2 THEN s
    ELSE IF s[1] = "-" /\ s[2] = "-" THEN CollapseDashes(Tail(s))
    ELSE <<s[1]>> \o CollapseDashes(Tail(s))

RECURSIVE LStripDash(_)
LStripDash(s) == IF s # <<>> /\ Head(s) = "-" THEN LStripDash(Tail(s)) ELSE s
RECURSIVE RStripDash(_)
RStripDash(s) ==
    IF s # <<>> /\ s[Len(s)] = "-"
    THEN RStripDash(SubSeq(s, 1, Len(s) - 1))
    ELSE s

CleanHandleNoTrim(joined) == CollapseDashes(ReplaceSpecial(Lower(joined)))
\* lower-case, replace, collapse, handle.strip('-')
CleanHandle(joined) ==
    RStripDash(LStripDash(CollapseDashes(ReplaceSpecial(Lower(joined)))))

create_handle(artist, title, details, release_date) ==
    LET handle_parts == <<safe_str(artist), safe_str(title), safe_str(details),
                          Strftime(release_date, <<"%Y", "%m", "%d">>)>>
    IN CleanHandle(JoinDash(NonEmptyParts(handle_parts)))

\* ------------------------------------------------------ format_vinyl_details
IsCased(c) == c \in LowerLetters \cup UpperLetters
UpperChar(c) ==
    IF c \in LowerLetters THEN CHOOSE u \in UpperLetters : LowerChar(u) = c ELSE c

\* str.title(): a cased character is upper-cased when the character before
\* it is not cased (or there is none) and lower-cased otherwise.
TitleCase(s) ==
    [i \in 1..Len(s) |->
        IF ~IsCased(s[i]) THEN s[i]
        ELSE IF i = 1 THEN UpperChar(s[i])
        ELSE IF IsCased(s[i - 1]) THEN LowerChar(s[i])
        ELSE UpperChar(s[i])]

\* s.split(c)
RECURSIVE SplitAt(_, _, _)
SplitAt(s, c, acc) ==
    IF s = <<>> THEN <<acc>>
    ELSE IF Head(s) = c THEN <<acc>> \o SplitAt(Tail(s), c, <<>>)
    ELSE SplitAt(Tail(s), c, Append(acc, Head(s)))
Split(s, c) == SplitAt(s, c, <<>>)

StartsWith(s, prefix) ==
    IF Len(s) < Len(prefix) THEN FALSE ELSE SubSeq(s, 1, Len(prefix)) = prefix

\* Replaces old only where it is a whole token: the next character is no
\* letter.  (After title() a capital only stands at the start of a word.)
RECURSIVE ReplaceToken(_, _, _)
ReplaceToken(s, old, new) ==
    IF s = <<>> THEN <<>>
    ELSE IF StartsWith(s, old)
            /\ (IF Len(s) = Len(old) THEN TRUE ELSE ~IsCased(s[Len(old) + 1]))
         THEN new \o ReplaceToken(SubSeq(s, Len(old) + 1, Len(s)), old, new)
         ELSE <<Head(s)>> \o ReplaceToken(Tail(s), old, new)
\* str.replace(old, new): every occurrence of old, left to right, wherever it
\* stands in the text.
RECURSIVE Replace(_, _, _)
Replace(s, old, new) ==
    IF s = <<>> THEN <<>>
    ELSE IF StartsWith(s, old)
         THEN new \o Replace(SubSeq(s, Len(old) + 1, Len(s)), old, new)
         ELSE <<Head(s)>> \o Replace(Tail(s), old, new)

\* The entries of the replacements dict that change the text, in dict order;
\* its other fourteen entries map a word to itself.
replacements ==
    << <<<<"L", "p">>, <<"L", "P">>>>,
       <<<<"E", "p">>, <<"E", "P">>>>,
       <<<<"C", "d">>, <<"C", "D">>>>,
       <<<<"R", "s", "d">>, <<"R", "S", "D">>>> >>

\* for old, new in replacements.items(): formatted = formatted.replace(old, new)
RECURSIVE ApplyReplacements(_, _)
ApplyReplacements(formatted, k) ==
    IF k > Len(replacements) THEN formatted
    ELSE ApplyReplacements(
             Replace(formatted, replacements[k][1], replacements[k][2]), k + 1)

\* sep.join(parts)
RECURSIVE Join(_, _)
Join(parts, sep) ==
    IF parts = <<>> THEN <<>>
    ELSE IF Len(parts) = 1 THEN parts[1]
    ELSE parts[1] \o sep \o Join(Tail(parts), sep)

StripEach(parts) == [i \in 1..Len(parts) |-> Strip(parts[i])]

\* '/'.join(p.strip() for p in formatted.split('/')) when '/' is in the text
SlashParts(formatted) ==
    IF \E i \in 1..Len(formatted) : formatted[i] = "/"
    THEN Join(StripEach(Split(formatted, "/")), <<"/">>)
    ELSE formatted

FormatPart(part) == SlashParts(ApplyReplacements(TitleCase(part), 1))

\* '' for a falsy argument and for text that is 'nan' in any letter case;
\* else the non-empty stripped parts between carets, each formatted, joined
\* with ', '.
format_vinyl_details(details_string) ==
    IF ~Truthy(details_string) THEN <<>>
    ELSE IF IsNa(details_string) THEN <<>>
    ELSE LET details == Strip(details_string.s)
             parts == NonEmptyParts(StripEach(Split(details, "^")))
         IN IF Lower(details) = <<"n", "a", "n">> THEN <<>>
            ELSE Join([i \in 1..Len(parts) |-> FormatPart(parts[i])], <<",", " ">>)

\* ------------------------------------------------------------- create_title
create_title_without_lp(artist, album, color_details) ==
    safe_str(artist) \o <<" ", "-", " ">> \o safe_str(album)
\* f"{artist} - {album} LP", then " ({formatted_details})" when color_details
\* and its formatted text are both non-empty.
create_title(artist, album, color_details) ==
    LET title == safe_str(artist) \o <<" ", "-", " ">> \o safe_str(album)
                     \o <<" ", "L", "P">>
        formatted_details == format_vinyl_details(Str(safe_str(color_details)))
    IN IF safe_str(color_details) # <<>> /\ formatted_details # <<>>
       THEN title \o <<" ", "(">> \o formatted_details \o <<")">>
       ELSE title

TagsPrefix ==
    <<"p", "r", "e", "o", "r", "d", "e", "r", " ", "c", "l", "u", "b", ",",
      "p", "r", "e", "o", "r", "d", "e", "r">>
TagsIsoDate(target) == TagsPrefix \o Strftime(target, <<"%Y", "-", "%m", "-", "%d">>)
\* tags = f"preorder club,preorder{target_date.strftime('%Y%m%d')}"
Tags(target) == TagsPrefix \o Strftime(target, <<"%Y", "%m", "%d">>)

\* -------------------------------------------------------------- floats
\* IEEE arithmetic on the float values: nan propagates and compares false,
\* inf absorbs finite operands, inf - inf is nan.
FMulPct(x, pct) ==
    IF x.k = "fin" THEN Fin((x.v * pct) \div 100) ELSE x
FAddConst(x, c) == IF x.k = "fin" THEN Fin(x.v + c) ELSE x
FSub(x, y) ==
    CASE x.k = "nan" \/ y.k = "nan" -> NaN
      [] x.k = "fin" /\ y.k = "fin" -> Fin(x.v - y.v)
      [] x.k = "inf" /\ y.k = "fin" -> x
      [] x.k = "fin" /\ y.k = "inf" -> Inf(0 - y.v)
      [] OTHER -> IF x.v = y.v THEN NaN ELSE x
FLess(x, y) ==
    CASE x.k = "nan" \/ y.k = "nan" -> FALSE
      [] x.k = "fin" /\ y.k = "fin" -> x.v < y.v
      [] x.k = "inf" /\ y.k = "fin" -> x.v < 0
      [] x.k = "fin" /\ y.k = "inf" -> y.v > 0
      [] OTHER -> x.v < y.v
FGreaterConst(x, c) ==
    CASE x.k = "nan" -> FALSE
      [] x.k = "fin" -> x.v > c
      [] OTHER -> x.v > 0

RECURSIVE Pow10(_)
Pow10(n) == IF n = 0 THEN 1 ELSE 10 * Pow10(n - 1)

AllDigits(s) == \A i \in 1..Len(s) : s[i] \in Digits

\* Index of the first "." of s, or Len(s) + 1.
RECURSIVE DotAt(_, _)
DotAt(s, i) == IF i > Len(s) \/ s[i] = "." THEN i ELSE DotAt(s, i + 1)

\* float(str): blanks are stripped, an optional sign, then nan, inf or
\* infinity in any letter case, or digits with an optional fraction; anything
\* else is a ValueError (None).  Exponent and underscore spellings are outside
\* the input alphabet.  The value is exact for up to four fraction digits.
ParseFloat(text) ==
    LET s == Strip(text)
        signed == s # <<>> /\ Head(s) \in {"+", "-"}
        sign == IF signed /\ Head(s) = "-" THEN -1 ELSE 1
        body == IF signed THEN Tail(s) ELSE s
        dot == DotAt(body, 1)
        ip == SubSeq(body, 1, dot - 1)
        fp == SubSeq(body, dot + 1, Len(body))
    IN CASE Lower(body) = <<"n", "a", "n">> -> NaN
         [] Lower(body) \in {<<"i", "n", "f">>,
                             <<"i", "n", "f", "i", "n", "i", "t", "y">>} -> Inf(sign)
         [] /\ AllDigits(ip) /\ AllDigits(fp) /\ Len(ip) + Len(fp) > 0
            /\ Len(fp) <= 4 ->
                Fin(sign * (NumAt(ip, 1, Len(ip)) * Unit
                            + NumAt(fp, 1, Len(fp)) * (Unit \div Pow10(Len(fp)))))
         [] OTHER -> None

\* float(msrp): a float is itself, a str is parsed, None is a TypeError.
ToFloat(msrp) ==
    CASE msrp.t = "float" -> msrp
      [] msrp.t = "str" -> ParseFloat(msrp.s)
      [] OTHER -> None

\* ------------------------------------------------- PreorderTransformer.__init__
\* cost_multiplier 0.77, in hundredths.
cost_multiplier == 77
base_markup == 6
msrp_minimum_markup == 7
club_base_markup == 6
club_tier1_threshold == 14
club_tier1_addition == 4
club_tier2_threshold == 20
club_tier2_addition == 9

\* ------------------------------------------------------------ calculate_pricing
EstimatedCostLowRate(msrp) == FMulPct(msrp, 70)
\* estimated_cost = msrp * self.cost_multiplier
EstimatedCost(msrp) == FMulPct(msrp, cost_multiplier)

AdjustedMsrpFromCost(msrp, estimated_cost) ==
    LET my_price == FAddConst(estimated_cost, base_markup * Unit) IN
    IF FLess(msrp, FAddConst(my_price, 6 * Unit))
    THEN FAddConst(estimated_cost, msrp_minimum_markup * Unit)
    ELSE msrp
AdjustedMsrpNoSlack(msrp, estimated_cost) ==
    LET my_price == FAddConst(estimated_cost, base_markup * Unit) IN
    IF FLess(msrp, my_price)
    THEN FAddConst(my_price, msrp_minimum_markup * Unit)
    ELSE msrp
\* my_price = estimated_cost + base_markup; the list price is raised to
\* my_price + msrp_minimum_markup when it is below my_price + 6.
AdjustedMsrp(msrp, estimated_cost) ==
    LET my_price == FAddConst(estimated_cost, base_markup * Unit) IN
    IF FLess(msrp, FAddConst(my_price, 6 * Unit))
    THEN FAddConst(my_price, msrp_minimum_markup * Unit)
    ELSE msrp

ClubPriceTierOnPrice(estimated_cost) ==
    LET club0 == FAddConst(estimated_cost, club_base_markup * Unit) IN
    IF FGreaterConst(club0, club_tier1_threshold * Unit)
    THEN FAddConst(club0, club_tier1_addition * Unit)
    ELSE club0
ClubPriceTier1At4(estimated_cost) ==
    LET club0 == FAddConst(estimated_cost, club_base_markup * Unit) IN
    IF FGreaterConst(FSub(club0, estimated_cost), 4 * Unit)
    THEN FAddConst(club0, club_tier1_addition * Unit)
    ELSE club0
\* club_price = estimated_cost + club_base_markup, then the two tier
\* additions, the second cost_diff re-evaluated after the first addition.
ClubPrice(estimated_cost) ==
    LET club0 == FAddConst(estimated_cost, club_base_markup * Unit)
        diff0 == FSub(club0, estimated_cost)
        club1 == FAddConst(club0, club_tier1_addition * Unit)
        diff1 == FSub(club1, estimated_cost)
    IN IF FGreaterConst(diff0, club_tier1_threshold * Unit)
       THEN IF FGreaterConst(diff1, club_tier2_threshold * Unit)
            THEN FAddConst(club1, club_tier2_addition * Unit)
            ELSE club1
       ELSE club0

\* Returns (estimated_cost, adjusted_msrp, club_price), or (None, None, None)
\* when float(msrp) raises ValueError or TypeError.
calculate_pricing(msrp) ==
    LET m == ToFloat(msrp) IN
    IF m.t = "none" THEN <<None, None, None>>
    ELSE LET estimated_cost == EstimatedCost(m) IN
         <<estimated_cost, AdjustedMsrp(m, estimated_cost), ClubPrice(estimated_cost)>>

\* weight_map.get(format_type, 180)
calculate_weight_grams(format_type) ==
    CASE format_type = <<"V", "I", "N", "Y", "L", " ", "L", "P">> -> 180
      [] format_type = <<"1", "2", "-", "I", "N", "C", "H", " ",
                         "S", "I", "N", "G", "L", "E">> -> 140
      [] format_type = <<"7", "-", "I", "N", "C", "H", " ",
                         "S", "I", "N", "G", "L", "E">> -> 40
      [] OTHER -> 180

\* ------------------------------------------------------ transform_to_shopify
VINYL_LP == <<"V", "I", "N", "Y", "L", " ", "L", "P">>
TWELVE_INCH_SINGLE ==
    <<"1", "2", "-", "I", "N", "C", "H", " ", "S", "I", "N", "G", "L", "E">>
SEVEN_INCH_SINGLE ==
    <<"7", "-", "I", "N", "C", "H", " ", "S", "I", "N", "G", "L", "E">>
vinyl_formats == <<TWELVE_INCH_SINGLE, SEVEN_INCH_SINGLE, VINYL_LP>>

\* safe_get(column_name): '' for a missing value, else the stripped text.
safe_get(row, column_name) ==
    LET value == row[column_name] IN
    IF IsNa(value) THEN Str(<<>>) ELSE Str(Strip(value.s))

\* if not artist or not album: skip
MissingRequired(artist, album) == ~Truthy(artist) \/ ~Truthy(album)

DateMismatchWithTime(avail_date, target) ==
    IF Truthy(avail_date) THEN avail_date # target ELSE TRUE
DateMismatchParseOnly(avail_date, target) == ~Truthy(avail_date)
\* if not avail_date or avail_date.date() != target_date_only: skip
DateMismatch(avail_date, target) ==
    IF Truthy(avail_date) THEN DateOf(avail_date) # DateOf(target) ELSE TRUE

\* format_desc in vinyl_formats
IsVinylFormat(format_desc) ==
    \E i \in 1..Len(vinyl_formats) : format_desc.s = vinyl_formats[i]

\* if not cost: skip
PricingFailed(cost) == ~Truthy(cost)

BreakLoop(i, n) == n + 1
\* continue / end of the loop body: on to the next row of alliance_df.
NextRow(i, n) == i + 1

\* ----------------------------------------------------- target dates
\* date.toordinal(): 1 for 0001-01-01
DaysBeforeYear(y) ==
    (y - 1) * 365 + ((y - 1) \div 4) - ((y - 1) \div 100) + ((y - 1) \div 400)
RECURSIVE DaysBeforeMonth(_, _)
DaysBeforeMonth(y, m) ==
    IF m = 1 THEN 0 ELSE DaysBeforeMonth(y, m - 1) + DaysInMonth(y, m - 1)
Ordinal(dt) == DaysBeforeYear(dt.y) + DaysBeforeMonth(dt.y, dt.m) + dt.d

\* weekday(): Monday is 0, Friday is 4
weekday(dt) == (Ordinal(dt) + 6) % 7

FirstOfNextMonth(dt) ==
    IF dt.m < 12 THEN [dt EXCEPT !.m = dt.m + 1, !.d = 1]
    ELSE [dt EXCEPT !.y = dt.y + 1, !.m = 1, !.d = 1]
\* dt + timedelta(days=n), n >= 0; the time of day is kept
RECURSIVE AddDays(_, _)
AddDays(dt, n) ==
    IF dt.d + n <= DaysInMonth(dt.y, dt.m) THEN [dt EXCEPT !.d = dt.d + n]
    ELSE AddDays(FirstOfNextMonth(dt), n - (DaysInMonth(dt.y, dt.m) - dt.d + 1))

\* .date() of a datetime
ToDate(dt) == [t |-> "date", y |-> dt.y, m |-> dt.m, d |-> dt.d]

DaysUntilFridayToday(wd) == (4 - wd) % 7
\* days_until_friday = (4 - today.weekday()) % 7; 7 if today is Friday
DaysUntilFriday(wd) ==
    IF (4 - wd) % 7 = 0 /\ wd = 4 THEN 7 ELSE (4 - wd) % 7

\* calculate_next_four_fridays, with today = datetime.now()
calculate_next_four_fridays(today) ==
    LET next_friday == AddDays(today, DaysUntilFriday(weekday(today)))
    IN [i \in 1..4 |-> AddDays(next_friday, 7 * (i - 1))]

\* calculate_default_friday, with today = datetime.now()
calculate_default_friday(today) ==
    LET next_friday == AddDays(today, DaysUntilFriday(weekday(today)))
        target_friday == AddDays(next_friday, 7 * 3)
    IN ToDate(target_friday)

\* DebugPreorderTransformer.calculate_target_release_date
calculate_target_release_date(today) ==
    LET next_friday == AddDays(today, DaysUntilFriday(weekday(today)))
    IN AddDays(next_friday, 7 * 3)

\* validate_date(selected_date): the warnings, in order
validate_date(selected_date, today) ==
    (IF weekday(selected_date) # 4 THEN <<"not a Friday">> ELSE <<>>)
    \o (IF Ordinal(selected_date) <= Ordinal(today) THEN <<"in the past">> ELSE <<>>)
    \o (IF Ordinal(selected_date) > Ordinal(AddDays(ToDate(today), 90))
        THEN <<"more than 3 months away">> ELSE <<>>)

AcceptsAnyResponse(response) == TRUE
\* response.lower() != 'y' declines
AcceptsResponse(response) == Lower(response) = <<"y">>

\* ------------------------------------------------ streamlit_app.py
\* s.endswith(suffix)
EndsWith(s, suffix) ==
    /\ Len(s) >= Len(suffix)
    /\ SubSeq(s, Len(s) - Len(suffix) + 1, Len(s)) = suffix

DOT_TXT == <<".", "t", "x", "t">>
ZipEntry(name, size) == [filename |-> name, file_size |-> size]
ZipArchive(file_list) == [readable |-> TRUE, namelist |-> file_list]
NoArchive == [readable |-> FALSE, namelist |-> <<>>]

\* The loop over zip_ref.namelist(): state <<target_file, largest_size>>,
\* target_file None until an entry is taken; a '.txt' entry ends the loop.
RECURSIVE ScanEntries(_, _, _)
ScanEntries(file_list, chosen, largest_size) ==
    IF file_list = <<>> THEN chosen
    ELSE LET e == Head(file_list) IN
         IF EndsWith(e.filename, <<"/">>)
         THEN ScanEntries(Tail(file_list), chosen, largest_size)
         ELSE IF EndsWith(Lower(e.filename), DOT_TXT)
         THEN Str(e.filename)
         ELSE IF e.file_size > largest_size
         THEN ScanEntries(Tail(file_list), Str(e.filename), e.file_size)
         ELSE ScanEntries(Tail(file_list), chosen, largest_size)

\* target_file = None; largest_size = 0; for filename in file_list: ...
SelectEntry(file_list) == ScanEntries(file_list, None, 0)

encodings_to_try == <<"utf-16", "utf-16-le", "utf-16-be", "utf-8", "latin-1">>
separators_to_try == <<"|", ",", "\t">>

\* The k-th pass (from 1) of the nested loops over encodings and separators.
ComboCount == Len(encodings_to_try) * Len(separators_to_try)
ComboAt(k) ==
    [encoding |-> encodings_to_try[((k - 1) \div Len(separators_to_try)) + 1],
     separator |-> separators_to_try[((k - 1) % Len(separators_to_try)) + 1]]

\* A text file as the sample read sees it: written in one encoding with one
\* separator and a number of columns.
TextFile(enc, sep, cols) == [encoding |-> enc, separator |-> sep, columns |-> cols]

\* len(pd.read_csv(path, encoding=, sep=, nrows=5).columns), 0 when the read
\* raises: the right encoding (or latin-1, which decodes any bytes) with the
\* right separator gives the file's columns, a wrong separator one column, a
\* wrong encoding a decoding error.
read_csv_columns(file, encoding, separator) ==
    IF encoding = file.encoding \/ encoding = "latin-1"
    THEN IF separator = file.separator THEN file.columns ELSE 1
    ELSE 0

AcceptsSampleFrom5(columns) == columns >= 5
\* if len(df_test.columns) > 5
AcceptsSample(columns) == columns > 5

\* str(row.get(c, '')).strip() if pd.notna(row.get(c)) else ''
web_get(r, column_name) ==
    IF IsNa(r[column_name]) THEN Str(<<>>) ELSE Str(Strip(r[column_name].s))

\* The chunk loop's test of one row: matched_records.append(row) is reached.
WebKeeps(r, target) ==
    LET a == web_get(r, "Artist")
        b == web_get(r, "ItemName")
        f == web_get(r, "FormatDesc")
        d == parse_avail_date(web_get(r, "AvailDt"))
    IN IF ~Truthy(a) \/ ~Truthy(b) THEN FALSE
       ELSE IF ~Truthy(d) THEN FALSE
       ELSE DateOf(d) = DateOf(target) /\ f.s \in {TWELVE_INCH_SINGLE, SEVEN_INCH_SINGLE, VINYL_LP}

\* for idx, row in df_chunk.iterrows(): the rows of the chunk that are kept
RECURSIVE KeptRows(_, _)
KeptRows(chunk, target) ==
    IF chunk = <<>> THEN <<>>
    ELSE IF WebKeeps(Head(chunk), target)
    THEN <<Head(chunk)>> \o KeptRows(Tail(chunk), target)
    ELSE KeptRows(Tail(chunk), target)

chunk_size == 10000

\* pd.read_csv(..., chunksize=size): the chunk starting at row `from` ends
\* at the last row of the file or after `size` rows
ChunkEnd(from, size, n) == IF from + size - 1 < n THEN from + size - 1 ELSE n
NextChunkSkippingOne(from, size) == from + size + 1
\* and the next chunk starts right after it.
NextChunk(from, size) == from + size

\* ------------------------------------------------------ web authentication
\* A key that is not in st.session_state.
Absent == [t |-> "absent", s |-> <<>>, k |-> "fin", v |-> 0]

\* check_admin_password(): the secret when it is set and truthy, else the
\* environment variable (None when unset).
check_admin_password(secret, env) == IF Truthy(secret) THEN secret ELSE env

\* hashlib.sha256(password.encode()).hexdigest(): a non-empty text that
\* differs for different passwords.
hash_password(password) == Str(<<"sha256", ":">> \o password.s)

\* st.session_state.get(key, default)
session_get(value, default) == IF value = Absent THEN default ELSE value

check_authentication_flag_only(authenticated, auth_hash, admin_password) ==
    authenticated = Str(<<"True">>)
\* False when 'authenticated' is not in the session or no password is
\* configured, else authenticated and stored_hash == expected_hash.
check_authentication(authenticated, auth_hash, admin_password) ==
    IF authenticated = Absent THEN FALSE
    ELSE IF ~Truthy(admin_password) THEN FALSE
    ELSE /\ authenticated = Str(<<"True">>)
         /\ session_get(auth_hash, Str(<<>>)) = hash_password(admin_password)

VARIABLES
    alliance_df,    \* the catalog rows handed to transform_to_shopify
    target_date,    \* the target release date (a datetime)
    pc,             \* "loop" while iterating, "done" after the summary
    idx,            \* position of the row the loop is at (1-based)
    vinyl_count, skipped_count, date_matches,
    shopify_data,   \* the output rows appended so far
    branch,         \* per processed row, the exit of the loop body it took
    msrp_arg,       \* calculate_pricing called on its own: the argument
    pricing_ret     \* and the returned triple (<<>> before the call)

tvars == <<alliance_df, target_date, pc, idx, vinyl_count, skipped_count,
           date_matches, shopify_data, branch>>
pvars == <<msrp_arg, pricing_ret>>

VARIABLES
    handle_rows,    \* create_handle on its own: the records of one run
    handle_date,    \* the run's target date
    handles         \* the handles returned so far, one per record in order
hvars == <<handle_rows, handle_date, handles>>

VARIABLES
    wpc,              \* process_alliance_catalog: "idle" when not called,
                      \* else the step it is at, "returned" at the end
    tmp_exists,       \* the downloaded temporary archive is on disk
    extracted_exists, \* the extracted temporary text file is on disk
    zip_entries,      \* the downloaded archive and its entries
    target_file,      \* the entry selected for extraction
    analysis_file,    \* the extracted text file
    probes,           \* format detection: the combinations tried so far,
                      \* each with the columns its sample had
    final_format,     \* final_encoding / final_separator
    web_catalog,      \* the rows of the extracted file
    web_chunk,        \* the chunksize of the chunked read
    chunk_from,       \* the row the next chunk starts at
    matched_records,
    web_result        \* the returned pair (frame, error)
wvars == <<wpc, tmp_exists, extracted_exists, zip_entries, target_file,
           analysis_file, probes, final_format, web_catalog, web_chunk,
           chunk_from, matched_records, web_result>>

VARIABLES
    date_text,      \* parse_avail_date on its own: the argument,
    date_made_from, \* the datetime and format it was written from, if any,
    date_ret        \* and the returned value (Pending before the call)
dvars == <<date_text, date_made_from, date_ret>>

VARIABLES
    cli_arg,        \* main of preorder_transformer.py: the --date argument,
    cli_today,      \* datetime.now() of the run,
    cli_target,     \* the parsed target date,
    cli_pc,         \* the step main is at,
    cli_prompts,    \* the warnings prompted so far, each with its response,
    cli_exit,       \* why main returned early, "none" if it did not,
    cli_loaded,     \* load_alliance_data has read the catalog
    cli_saved       \* save_csv has written the output file
cvars == <<cli_arg, cli_today, cli_target, cli_pc, cli_prompts, cli_exit,
           cli_loaded, cli_saved>>

VARIABLES
    def_today,      \* the default target date: datetime.now(),
    def_default,    \* what calculate_default_friday returned,
    def_fridays,    \* what calculate_next_four_fridays returned,
    def_release,    \* what calculate_target_release_date returned,
    def_warnings    \* what validate_date returned for the default
fvars == <<def_today, def_default, def_fridays, def_release, def_warnings>>

VARIABLES
    details_arg,    \* format_vinyl_details on its own: the argument
    details_ret     \* and the returned text (Pending before the call)
gvars == <<details_arg, details_ret>>

VARIABLES
    cli_file,       \* main: the catalog file load_alliance_data was given,
    cli_columns,    \* the number of columns of the frame it returned,
    cli_written     \* the output file save_csv wrote
kvars == <<cli_file, cli_columns, cli_written>>

VARIABLES
    secret_password,       \* st.secrets.admin_password, None when not set,
    env_password,          \* the environment's ADMIN_PASSWORD, None when unset,
    session_authenticated, \* st.session_state.authenticated,
    session_auth_hash,     \* st.session_state.auth_hash,
    page,                  \* what the last script run rendered,
    password_input,        \* the password of the last login form submitted,
    auth_backup,           \* process_alliance_catalog: the saved auth fields,
    run_pc                 \* "running" inside process_alliance_catalog
avars == <<secret_password, env_password, session_authenticated,
           session_auth_hash, page, password_input, auth_backup, run_pc>>

xvars == <<gvars, kvars, avars>>

\* the variables neither entry point touches
uvars == <<pvars, hvars, dvars, cvars, fvars, xvars>>
\* the variables no step of transform_to_shopify or calculate_pricing touches
ovars == <<hvars, wvars, dvars, cvars, fvars, xvars>>
vars == <<tvars, pvars, ovars>>

HandleIdle == handle_rows = <<>> /\ handle_date = None /\ handles = <<>>
WebIdle ==
    /\ wpc = "idle"
    /\ tmp_exists = FALSE
    /\ extracted_exists = FALSE
    /\ zip_entries = NoArchive
    /\ target_file = None
    /\ analysis_file = None
    /\ probes = <<>>
    /\ final_format = None
    /\ web_catalog = <<>>
    /\ web_chunk = chunk_size
    /\ chunk_from = 1
    /\ matched_records = <<>>
    /\ web_result = None
Pending == [t |-> "pending"]
NotWritten == [dt |-> None, fmt |-> <<>>]
DateIdle == date_text = None /\ date_made_from = NotWritten /\ date_ret = Pending
NotCalled == <<"not called">>
CliIdle ==
    /\ cli_arg = None
    /\ cli_today = None
    /\ cli_target = None
    /\ cli_pc = "idle"
    /\ cli_prompts = <<>>
    /\ cli_exit = "none"
    /\ cli_loaded = FALSE
    /\ cli_saved = FALSE
DefaultIdle ==
    /\ def_today = None
    /\ def_default = None
    /\ def_fridays = <<>>
    /\ def_release = None
    /\ def_warnings = NotCalled
DetailsIdle == details_arg = None /\ details_ret = Pending
SavingIdle == cli_file = None /\ cli_columns = 0 /\ cli_written = None
SessionIdle ==
    /\ secret_password = None
    /\ env_password = None
    /\ session_authenticated = Absent
    /\ session_auth_hash = Absent
    /\ page = "none"
    /\ password_input = None
    /\ auth_backup = None
    /\ run_pc = "idle"
ExtraIdle == DetailsIdle /\ SavingIdle /\ SessionIdle
OthersIdle ==
    HandleIdle /\ WebIdle /\ DateIdle /\ CliIdle /\ DefaultIdle /\ ExtraIdle

DT(y, m, d) == [t |-> "datetime", y |-> y, m |-> m, d |-> d, H |-> 0, M |-> 0, S |-> 0]
TargetDates == {DT(2025, 9, 19), DT(2025, 9, 20)}

Row(artist, item, fmt, avail, msrp) ==
    [Artist |-> artist, ItemName |-> item, FormatDesc |-> fmt,
     AvailDt |-> avail, MSRP |-> msrp, DelimMisc |-> NaN]
WithDetails(r, details) == [r EXCEPT !.DelimMisc = Str(details)]

Sep19 == <<"2", "0", "2", "5", "-", "0", "9", "-", "1", "9">>
Sep19Noon == Sep19 \o <<" ", "1", "3", ":", "3", "0", ":", "0", "0">>
Sep20US == <<"0", "9", "/", "2", "0", "/", "2", "0", "2", "5">>
ArtistA == Str(<<"A", "b">>)
TitleT == Str(<<"T", " ", "2">>)

\* The catalog rows the runs are drawn from.
SampleRows ==
    { Row(ArtistA, TitleT, Str(VINYL_LP), Str(Sep19), Str(<<"2", "4", ".", "9", "8">>)),
      Row(ArtistA, TitleT, Str(SEVEN_INCH_SINGLE), Str(Sep20US), Str(<<"6", "0">>)),
      Row(ArtistA, TitleT, Str(<<" ">> \o VINYL_LP \o <<" ">>), Str(Sep19Noon),
          Str(<<" ", "1", "2", ".", "5">>)),
      Row(NaN, TitleT, Str(VINYL_LP), Str(Sep19), Str(<<"2", "0">>)),
      Row(ArtistA, Str(<<" ", " ">>), Str(TWELVE_INCH_SINGLE), Str(Sep20US), Str(<<"2", "0">>)),
      Row(ArtistA, TitleT, Str(<<"C", "D">>), Str(Sep19), Str(<<"2", "0">>)),
      Row(ArtistA, TitleT, Str(VINYL_LP), Str(<<"T", "B", "D">>), Str(<<"2", "0">>)),
      Row(ArtistA, TitleT, Str(VINYL_LP), NaN, Str(<<"2", "0">>)),
      Row(ArtistA, TitleT, Str(VINYL_LP), Str(Sep19), NaN),
      Row(ArtistA, TitleT, Str(VINYL_LP), Str(Sep19), Str(<<"0">>)),
      Row(ArtistA, TitleT, Str(TWELVE_INCH_SINGLE), Str(Sep19), Str(<<"N", "/", "A">>)),
      Row(ArtistA, TitleT, Str(VINYL_LP), Str(Sep20US), Str(<<"-", "5">>)),
      WithDetails(Row(ArtistA, TitleT, Str(SEVEN_INCH_SINGLE), Str(Sep19), Str(<<"9">>)),
                  <<"L", "T", "D", "^", " ", "2", "L", "P">>) }

RECURSIVE SeqsUpTo(_, _)
SeqsUpTo(S, n) ==
    IF n = 0 THEN {<<>>}
    ELSE LET shorter == SeqsUpTo(S, n - 1) IN
         shorter \cup {Append(q, e) : q \in {r \in shorter : Len(r) = n - 1}, e \in S}

\* The MSRP values calculate_pricing is called with on its own.
PriceInputs ==
    {Fin(c * 100) : c \in (0 - MinCentsBelowZero)..MaxCents}
    \cup {NaN, Inf(1), Inf(-1), None,
          Str(<<"2", "4", ".", "9", "8">>), Str(<<"N", "/", "A">>)}

\* State at entry to the loop of transform_to_shopify.
Init ==
    /\ alliance_df \in SeqsUpTo(SampleRows, MaxRecords)
    /\ target_date \in TargetDates
    /\ pc = "loop"
    /\ idx = 1
    /\ vinyl_count = 0
    /\ skipped_count = 0
    /\ date_matches = 0
    /\ shopify_data = <<>>
    /\ branch = <<>>
    /\ msrp_arg = None
    /\ pricing_ret = <<>>
    /\ OthersIdle

AtRow == pc = "loop" /\ idx <= Len(alliance_df)
row == alliance_df[idx]
artist == safe_get(row, "Artist")
album == safe_get(row, "ItemName")
format_desc == safe_get(row, "FormatDesc")
msrp_raw == row["MSRP"]
color_details == safe_get(row, "DelimMisc")
avail_date == parse_avail_date(safe_get(row, "AvailDt"))

Leave(exit) ==
    /\ branch' = Append(branch, exit)
    /\ idx' = NextRow(idx, Len(alliance_df))
    /\ UNCHANGED <<alliance_df, target_date, pc, pvars, ovars>>

SkipMissingField ==
    /\ AtRow
    /\ MissingRequired(artist, album)
    /\ skipped_count' = skipped_count + 1
    /\ UNCHANGED <<date_matches, vinyl_count, shopify_data>>
    /\ Leave("missing")

SkipDateMismatch ==
    /\ AtRow
    /\ ~MissingRequired(artist, album)
    /\ DateMismatch(avail_date, target_date)
    /\ skipped_count' = skipped_count + 1
    /\ UNCHANGED <<date_matches, vinyl_count, shopify_data>>
    /\ Leave("date")

SkipFormatUncounted ==
    /\ AtRow
    /\ ~MissingRequired(artist, album)
    /\ ~DateMismatch(avail_date, target_date)
    /\ ~IsVinylFormat(format_desc)
    /\ date_matches' = date_matches + 1
    /\ UNCHANGED <<skipped_count, vinyl_count, shopify_data>>
    /\ Leave("format")
SkipFormatMismatch ==
    /\ AtRow
    /\ ~MissingRequired(artist, album)
    /\ ~DateMismatch(avail_date, target_date)
    /\ ~IsVinylFormat(format_desc)
    /\ date_matches' = date_matches + 1
    /\ skipped_count' = skipped_count + 1
    /\ UNCHANGED <<vinyl_count, shopify_data>>
    /\ Leave("format")

Matched ==
    /\ AtRow
    /\ ~MissingRequired(artist, album)
    /\ ~DateMismatch(avail_date, target_date)
    /\ IsVinylFormat(format_desc)

SkipPricing ==
    /\ Matched
    /\ PricingFailed(calculate_pricing(msrp_raw)[1])
    /\ date_matches' = date_matches + 1
    /\ vinyl_count' = vinyl_count + 1
    /\ UNCHANGED <<skipped_count, shopify_data>>
    /\ Leave("price")

\* The columns of shopify_row modelled here: the title, the tags, the
\* computed price and weight fields and the constant Status.
shopify_row(price) ==
    [Title |-> create_title(artist, album, color_details),
     Tags |-> Tags(target_date),
     Variant_Grams |-> calculate_weight_grams(format_desc.s),
     Variant_Price |-> price[3],
     Variant_Compare_At_Price |-> price[2],
     Cost_per_item |-> price[1],
     Status |-> "draft"]

AppendRow ==
    /\ Matched
    /\ ~PricingFailed(calculate_pricing(msrp_raw)[1])
    /\ date_matches' = date_matches + 1
    /\ vinyl_count' = vinyl_count + 1
    /\ shopify_data' = Append(shopify_data, shopify_row(calculate_pricing(msrp_raw)))
    /\ UNCHANGED skipped_count
    /\ Leave("row")

\* The loop is exhausted: the summary is printed and the frame returned.
Finish ==
    /\ pc = "loop"
    /\ idx > Len(alliance_df)
    /\ pc' = "done"
    /\ UNCHANGED <<alliance_df, target_date, idx, vinyl_count, skipped_count,
                   date_matches, shopify_data, branch, pvars, ovars>>

Next ==
    \/ SkipMissingField
    \/ SkipDateMismatch
    \/ SkipFormatMismatch
    \/ SkipPricing
    \/ AppendRow
    \/ Finish

Spec == Init /\ [][Next]_vars

\* ---------------------------------------- calculate_pricing called on its own
InitPricing ==
    /\ alliance_df = <<>>
    /\ target_date \in TargetDates
    /\ pc = "done"
    /\ idx = 1
    /\ vinyl_count = 0
    /\ skipped_count = 0
    /\ date_matches = 0
    /\ shopify_data = <<>>
    /\ branch = <<>>
    /\ msrp_arg \in PriceInputs
    /\ pricing_ret = <<>>
    /\ OthersIdle

CallCalculatePricing ==
    /\ pricing_ret = <<>>
    /\ pricing_ret' = calculate_pricing(msrp_arg)
    /\ UNCHANGED <<tvars, msrp_arg, ovars>>

NextPricing == CallCalculatePricing

SpecPricing == InitPricing /\ [][NextPricing]_vars

\* ------------------------------------------- create_handle on its own
TransformIdle ==
    /\ alliance_df = <<>>
    /\ target_date = None
    /\ pc = "done"
    /\ idx = 1
    /\ vinyl_count = 0
    /\ skipped_count = 0
    /\ date_matches = 0
    /\ shopify_data = <<>>
    /\ branch = <<>>
PricingIdle == msrp_arg = None /\ pricing_ret = <<>>

HandleRecord(a, b, c) == [artist |-> a, album |-> b, color_details |-> c]

\* Artist / ItemName / DelimMisc as safe_get hands them on: stripped texts,
\* the first two non-empty.
HandleArtists ==
    {Str(<<"A", "b">>), Str(<<"A", "B">>), Str(<<"A", ".", "b">>),
     Str(<<"A", " ", "b">>), Str(<<"-">>), Str(<<"Q", "&", "!">>)}
HandleAlbums == {Str(<<"T">>), Str(<<"T", "!">>), Str(<<"2", "*", "x">>)}
HandleDetails ==
    {Str(<<>>), Str(<<"R", "E", "D", "^", "L", "P">>), Str(<<"R", "e", "d">>)}
HandleRecords ==
    {HandleRecord(a, b, c) : a \in HandleArtists, b \in HandleAlbums,
                            c \in HandleDetails}

InitHandle ==
    /\ TransformIdle
    /\ PricingIdle
    /\ WebIdle
    /\ DateIdle
    /\ CliIdle
    /\ DefaultIdle
    /\ ExtraIdle
    /\ handle_rows \in [1..2 -> HandleRecords]
    /\ handle_date \in TargetDates
    /\ handles = <<>>

\* handle = self.create_handle(artist, album, color_details, target_date)
\* for the next record of the run
CallCreateHandle ==
    /\ Len(handles) < Len(handle_rows)
    /\ LET r == handle_rows[Len(handles) + 1]
       IN handles' = Append(handles,
              create_handle(r.artist, r.album, r.color_details, handle_date))
    /\ UNCHANGED <<tvars, pvars, wvars, dvars, cvars, fvars, xvars, handle_rows,
                   handle_date>>

NextHandle == CallCreateHandle

SpecHandle == InitHandle /\ [][NextHandle]_vars

\* --------------------------- the two entry points on the same catalogs:
\* transform_to_shopify on a whole catalog (the command line's path) and
\* process_alliance_catalog (the web application's path).
WebRows ==
    { Row(ArtistA, TitleT, Str(VINYL_LP), Str(Sep19), Str(<<"2", "4", ".", "9", "8">>)),
      Row(ArtistA, TitleT, Str(SEVEN_INCH_SINGLE), Str(Sep19Noon), Str(<<"6", "0">>)),
      Row(ArtistA, TitleT, Str(TWELVE_INCH_SINGLE), Str(Sep19), Str(<<"N", "/", "A">>)),
      Row(ArtistA, TitleT, Str(<<"C", "D">>), Str(Sep19), Str(<<"2", "0">>)),
      Row(NaN, TitleT, Str(VINYL_LP), Str(Sep20US), Str(<<"2", "0">>)) }

\* Downloaded archives: entry lists with directories, '.txt' entries in
\* either letter case, empty entries and ties of size; NoArchive is a
\* download that zipfile cannot open.
Archives ==
    { NoArchive,
      ZipArchive(<<>>),
      ZipArchive(<<ZipEntry(<<"d", "/">>, 0)>>),
      ZipArchive(<<ZipEntry(<<"c", ".", "c", "s", "v">>, 0)>>),
      ZipArchive(<<ZipEntry(<<"d", "/">>, 0),
                   ZipEntry(<<"c", ".", "c", "s", "v">>, 9),
                   ZipEntry(<<"a", ".", "t", "x", "t">>, 2)>>),
      ZipArchive(<<ZipEntry(<<"B", ".", "T", "X", "T">>, 0),
                   ZipEntry(<<"c", ".", "c", "s", "v">>, 5)>>),
      ZipArchive(<<ZipEntry(<<"c", ".", "c", "s", "v">>, 4),
                   ZipEntry(<<"e", ".", "d", "a", "t">>, 9),
                   ZipEntry(<<"f", ".", "d", "a", "t">>, 9)>>) }

TextFiles ==
    { TextFile("utf-16", "|", 30), TextFile("utf-8", ",", 6),
      TextFile("utf-16-be", "\t", 5), TextFile("utf-8", "|", 1) }

\* The chunk_size of the code and sizes that put chunk boundaries inside the
\* catalogs drawn here.
ChunkSizes == {1, 2, chunk_size}

Returned(frame, error) == [frame |-> frame, error |-> error]

InitPipelines ==
    /\ PricingIdle
    /\ HandleIdle
    /\ DateIdle
    /\ CliIdle
    /\ DefaultIdle
    /\ ExtraIdle
    /\ target_date \in TargetDates
    /\ idx = 1
    /\ vinyl_count = 0
    /\ skipped_count = 0
    /\ date_matches = 0
    /\ shopify_data = <<>>
    /\ branch = <<>>
    /\ \/ /\ alliance_df \in SeqsUpTo(WebRows, MaxRecords)
          /\ pc = "loop"
          /\ WebIdle
       \/ /\ alliance_df = <<>>
          /\ pc = "done"
          /\ wpc = "start"
          /\ tmp_exists = FALSE
          /\ extracted_exists = FALSE
          /\ zip_entries = NoArchive
          /\ target_file = None
          /\ analysis_file = None
          /\ probes = <<>>
          /\ final_format = None
          /\ web_catalog = <<>>
          /\ web_chunk = chunk_size
          /\ chunk_from = 1
          /\ matched_records = <<>>
          /\ web_result = None

\* return None, <error>
ReturnError(error) ==
    /\ wpc' = "returned"
    /\ web_result' = Returned(None, error)

\* download_alliance_catalog without configured credentials
DownloadNoCredentials ==
    /\ wpc = "start"
    /\ ReturnError("FTP credentials not properly configured")
    /\ UNCHANGED <<tvars, uvars, tmp_exists, extracted_exists,
                   zip_entries, target_file, analysis_file, probes,
                   final_format, web_catalog, web_chunk, chunk_from,
                   matched_records>>

\* download_alliance_catalog: the temporary file is created, then the FTP
\* session fails
DownloadFtpError ==
    /\ wpc = "start"
    /\ tmp_exists' = TRUE
    /\ ReturnError("FTP Error")
    /\ UNCHANGED <<tvars, uvars, extracted_exists, zip_entries,
                   target_file, analysis_file, probes, final_format,
                   web_catalog, web_chunk, chunk_from, matched_records>>

\* download_alliance_catalog returns the path of the downloaded file
Download ==
    /\ wpc = "start"
    /\ tmp_exists' = TRUE
    /\ zip_entries' \in Archives
    /\ wpc' = "downloaded"
    /\ UNCHANGED <<tvars, uvars, extracted_exists, target_file,
                   analysis_file, probes, final_format, web_catalog,
                   web_chunk, chunk_from, matched_records, web_result>>

\* zipfile.ZipFile(tmp_file_path) raises
ZipUnreadable ==
    /\ wpc = "downloaded"
    /\ ~zip_entries.readable
    /\ ReturnError("ZIP extraction failed")
    /\ UNCHANGED <<tvars, uvars, tmp_exists, extracted_exists,
                   zip_entries, target_file, analysis_file, probes,
                   final_format, web_catalog, web_chunk, chunk_from,
                   matched_records>>

\* if not target_file: return None, "No suitable file found in ZIP archive"
NoSuitableEntry ==
    /\ wpc = "downloaded"
    /\ zip_entries.readable
    /\ target_file' = SelectEntry(zip_entries.namelist)
    /\ ~Truthy(target_file')
    /\ ReturnError("No suitable file found in ZIP archive")
    /\ UNCHANGED <<tvars, uvars, tmp_exists, extracted_exists,
                   zip_entries, analysis_file, probes, final_format,
                   web_catalog, web_chunk, chunk_from, matched_records>>

\* The temporary text file is created, then zip_ref.read(target_file) raises
ExtractFails ==
    /\ wpc = "downloaded"
    /\ zip_entries.readable
    /\ target_file' = SelectEntry(zip_entries.namelist)
    /\ Truthy(target_file')
    /\ extracted_exists' = TRUE
    /\ ReturnError("ZIP extraction failed")
    /\ UNCHANGED <<tvars, uvars, tmp_exists, zip_entries,
                   analysis_file, probes, final_format, web_catalog,
                   web_chunk, chunk_from, matched_records>>

\* The selected entry is written to the temporary text file
Extract ==
    /\ wpc = "downloaded"
    /\ zip_entries.readable
    /\ target_file' = SelectEntry(zip_entries.namelist)
    /\ Truthy(target_file')
    /\ extracted_exists' = TRUE
    /\ analysis_file' \in TextFiles
    /\ wpc' = "detect"
    /\ UNCHANGED <<tvars, uvars, tmp_exists, zip_entries, probes,
                   final_format, web_catalog, web_chunk, chunk_from,
                   matched_records, web_result>>

\* One pass of the detection loops that does not end them: the sample read
\* raises or has too few columns.
ProbeRejected ==
    /\ wpc = "detect"
    /\ Len(probes) < ComboCount
    /\ LET c == ComboAt(Len(probes) + 1)
           n == read_csv_columns(analysis_file, c.encoding, c.separator)
       IN /\ ~AcceptsSample(n)
          /\ probes' = Append(probes, [combo |-> c, columns |-> n])
    /\ UNCHANGED <<tvars, uvars, wpc, tmp_exists, extracted_exists,
                   zip_entries, target_file, analysis_file, final_format,
                   web_catalog, web_chunk, chunk_from, matched_records,
                   web_result>>

\* The pass that sets success: both loops are left and the chunked read of
\* the file starts.
ProbeAccepted ==
    /\ wpc = "detect"
    /\ Len(probes) < ComboCount
    /\ LET c == ComboAt(Len(probes) + 1)
           n == read_csv_columns(analysis_file, c.encoding, c.separator)
       IN /\ AcceptsSample(n)
          /\ probes' = Append(probes, [combo |-> c, columns |-> n])
          /\ final_format' = c
    /\ web_catalog' \in SeqsUpTo(WebRows, MaxRecords)
    /\ web_chunk' \in ChunkSizes
    /\ chunk_from' = 1
    /\ matched_records' = <<>>
    /\ wpc' = "chunks"
    /\ UNCHANGED <<tvars, uvars, tmp_exists, extracted_exists,
                   zip_entries, target_file, analysis_file, web_result>>

\* if not success: return None, "Could not detect file format"
DetectionFails ==
    /\ wpc = "detect"
    /\ Len(probes) = ComboCount
    /\ ReturnError("Could not detect file format")
    /\ UNCHANGED <<tvars, uvars, tmp_exists, extracted_exists,
                   zip_entries, target_file, analysis_file, probes,
                   final_format, web_catalog, web_chunk, chunk_from,
                   matched_records>>

\* One iteration of the chunk loop: every row of the chunk is tested.
ProcessChunk ==
    /\ wpc = "chunks"
    /\ chunk_from <= Len(web_catalog)
    /\ LET to == ChunkEnd(chunk_from, web_chunk, Len(web_catalog))
       IN matched_records' =
              matched_records \o KeptRows(SubSeq(web_catalog, chunk_from, to),
                                          target_date)
    /\ chunk_from' = NextChunk(chunk_from, web_chunk)
    /\ UNCHANGED <<tvars, uvars, wpc, tmp_exists, extracted_exists,
                   zip_entries, target_file, analysis_file, probes,
                   final_format, web_catalog, web_chunk, web_result>>

\* The chunked read raises: return None, "Error processing data"
ChunkError ==
    /\ wpc = "chunks"
    /\ chunk_from <= Len(web_catalog)
    /\ ReturnError("Error processing data")
    /\ UNCHANGED <<tvars, uvars, tmp_exists, extracted_exists,
                   zip_entries, target_file, analysis_file, probes,
                   final_format, web_catalog, web_chunk, chunk_from,
                   matched_records>>

\* if not matched_records: return pd.DataFrame(), None
ReturnEmpty ==
    /\ wpc = "chunks"
    /\ chunk_from > Len(web_catalog)
    /\ matched_records = <<>>
    /\ wpc' = "returned"
    /\ web_result' = Returned(<<>>, "none")
    /\ UNCHANGED <<tvars, uvars, tmp_exists, extracted_exists,
                   zip_entries, target_file, analysis_file, probes,
                   final_format, web_catalog, web_chunk, chunk_from,
                   matched_records>>

\* transformer.transform_to_shopify(matched_df, target_datetime) is entered
StartTransform ==
    /\ wpc = "chunks"
    /\ chunk_from > Len(web_catalog)
    /\ matched_records # <<>>
    /\ alliance_df' = matched_records
    /\ pc' = "loop"
    /\ wpc' = "transform"
    /\ UNCHANGED <<target_date, idx, vinyl_count, skipped_count, date_matches,
                   shopify_data, branch, uvars, tmp_exists,
                   extracted_exists, zip_entries, target_file, analysis_file,
                   probes, final_format, web_catalog, web_chunk, chunk_from,
                   matched_records, web_result>>

\* transform_to_shopify has returned: both temporary files are unlinked and
\* the frame is returned.
ReturnFrame ==
    /\ wpc = "transform"
    /\ pc = "done"
    /\ tmp_exists' = FALSE
    /\ extracted_exists' = FALSE
    /\ wpc' = "returned"
    /\ web_result' = Returned(shopify_data, "none")
    /\ UNCHANGED <<tvars, uvars, zip_entries, target_file,
                   analysis_file, probes, final_format, web_catalog,
                   web_chunk, chunk_from, matched_records>>

NextPipelines ==
    \/ Next
    \/ DownloadNoCredentials
    \/ DownloadFtpError
    \/ Download
    \/ ZipUnreadable
    \/ NoSuitableEntry
    \/ ExtractFails
    \/ Extract
    \/ ProbeRejected
    \/ ProbeAccepted
    \/ DetectionFails
    \/ ProcessChunk
    \/ ChunkError
    \/ ReturnEmpty
    \/ StartTransform
    \/ ReturnFrame

SpecPipelines == InitPipelines /\ [][NextPipelines]_vars

\* ------------------------------------------- parse_avail_date on its own
Time(dt, h, m, s) == [dt EXCEPT !.H = h, !.M = m, !.S = s]
SourceYears == {1000, 1900, 1968, 1969, 2000, 2024, 2025, 2068, 2069}
SourceDays == {1, 9, 29, 31}
SourceTimes == {<<0, 0, 0>>, <<13, 30, 59>>}
SourceDates ==
    {dt \in {Time(DT(y, m, d), hms[1], hms[2], hms[3]) :
                y \in SourceYears, m \in 1..12, d \in SourceDays,
                hms \in SourceTimes} :
        dt.d <= DaysInMonth(dt.y, dt.m)}

\* The formats catalog files write AvailDt in.
WrittenFormats ==
    { <<"%Y", "-", "%m", "-", "%d", " ", "%H", ":", "%M", ":", "%S">>,
      <<"%Y", "-", "%m", "-", "%d">>,
      <<"%m", "/", "%d", "/", "%Y", " ", "%H", ":", "%M", ":", "%S">>,
      <<"%m", "/", "%d", "/", "%Y">>,
      <<"%m", "-", "%d", "-", "%Y">>,
      <<"%Y", "%m", "%d">>,
      <<"%m", "/", "%d", "/", "%y">> }

\* Texts that were not written from a date: blank, null markers, words,
\* impossible dates, formats that are not supported.
RawTexts ==
    { <<>>, <<" ">>, <<" ", " ">>,
      <<"n", "a", "n">>, <<"N", "a", "N">>, <<"N", "A", "N">>, <<" ", "n", "a", "N", " ">>,
      <<"T", "B", "D">>, <<"n", "a", "n", "a">>,
      <<"2", "0", "2", "5", "-", "1", "3", "-", "0", "1">>,
      <<"0", "2", "/", "3", "0", "/", "2", "0", "2", "5">>,
      <<"2", "0", "2", "5", "/", "0", "9", "/", "1", "9">>,
      <<"9", "/", "1", "9", "/", "2", "5">>,
      <<"2", "0", "2", "5", "0", "9", "1", "9", "0">>,
      <<"2", "0", "2", "5", "-", "0", "9", "-", "1", "9", "T", "0", "0", ":", "0", "0">> }

Written(dt, fmt) == [dt |-> dt, fmt |-> fmt]

InitDate ==
    /\ TransformIdle
    /\ PricingIdle
    /\ HandleIdle
    /\ WebIdle
    /\ CliIdle
    /\ DefaultIdle
    /\ ExtraIdle
    /\ date_ret = Pending
    /\ \/ /\ date_made_from = NotWritten
          /\ date_text \in {Str(s) : s \in RawTexts} \cup {NaN}
       \/ /\ date_made_from \in {Written(dt, fmt) : dt \in SourceDates, fmt \in WrittenFormats}
          /\ \E pad \in {<<>>, <<" ">>} :
                date_text = Str(pad \o Strftime(date_made_from.dt, date_made_from.fmt) \o pad)

\* avail_date = self.parse_avail_date(avail_dt_raw)
CallParseAvailDate ==
    /\ date_ret = Pending
    /\ date_ret' = parse_avail_date(date_text)
    /\ UNCHANGED <<tvars, pvars, hvars, wvars, cvars, fvars, xvars, date_text,
                   date_made_from>>

NextDate == CallParseAvailDate

SpecDate == InitDate /\ [][NextDate]_vars

\* --------------------------------------- main of preorder_transformer.py
\* The days the run happens on: a Monday to a Sunday.
CliTodays == {Time(DT(2025, 9, d), 13, 30, 59) : d \in 15..21}
\* The --date arguments: days before, on and after those days in the first
\* format, one in another format, a word, and the empty string.
CliArgs ==
    {Str(Strftime(DT(2025, 9, d), <<"%Y", "-", "%m", "-", "%d">>)) : d \in 12..27}
    \cup {Str(Sep20US), Str(<<"T", "B", "D">>), Str(<<>>)}
Responses == {<<"y">>, <<"Y">>, <<"n">>, <<"y", "e", "s">>, <<>>}

InitCli ==
    /\ TransformIdle
    /\ PricingIdle
    /\ HandleIdle
    /\ WebIdle
    /\ DateIdle
    /\ DefaultIdle
    /\ ExtraIdle
    /\ cli_arg \in CliArgs
    /\ cli_today \in CliTodays
    /\ cli_target = None
    /\ cli_pc = "start"
    /\ cli_prompts = <<>>
    /\ cli_exit = "none"
    /\ cli_loaded = FALSE
    /\ cli_saved = FALSE

CliRest ==
    <<tvars, pvars, hvars, wvars, dvars, fvars, gvars, avars, cli_arg, cli_today>>
Prompt(check, response) == [check |-> check, response |-> response]
\* if target_date.date() <= datetime.now().date()
IsPast(target, today) == Ordinal(target) <= Ordinal(today)

\* The second check of validate_target_date, reached without a return
PastCheck(target, prompts) ==
    IF IsPast(target, cli_today)
    THEN /\ cli_pc' = "ask_past"
         /\ cli_prompts' = Append(prompts, Prompt("in the past", <<>>))
    ELSE /\ cli_pc' = "validated"
         /\ cli_prompts' = prompts

\* parse_target_date raises ValueError (caught: main returns) or returns
\* None, on which target_date.strftime raises and ends the process.
ParseFails ==
    /\ cli_pc = "start"
    /\ parse_target_date(cli_arg).t # "datetime"
    /\ cli_pc' = "exit"
    /\ cli_exit' = IF parse_target_date(cli_arg) = None
                   THEN "AttributeError" ELSE "ValueError"
    /\ UNCHANGED <<CliRest, cli_target, cli_prompts, cli_loaded, cli_saved,
                   kvars>>

\* The date is parsed and is not a Friday: the first prompt waits for input.
WarnNotFriday ==
    /\ cli_pc = "start"
    /\ parse_target_date(cli_arg).t = "datetime"
    /\ weekday(parse_target_date(cli_arg)) # 4
    /\ cli_target' = parse_target_date(cli_arg)
    /\ cli_pc' = "ask_friday"
    /\ cli_prompts' = <<Prompt("not a Friday", <<>>)>>
    /\ UNCHANGED <<CliRest, cli_exit, cli_loaded, cli_saved,
                   kvars>>

\* The date is parsed and is a Friday: on to the second check.
FridayOk ==
    /\ cli_pc = "start"
    /\ parse_target_date(cli_arg).t = "datetime"
    /\ weekday(parse_target_date(cli_arg)) = 4
    /\ cli_target' = parse_target_date(cli_arg)
    /\ PastCheck(cli_target', cli_prompts)
    /\ UNCHANGED <<CliRest, cli_exit, cli_loaded, cli_saved,
                   kvars>>

Answered(prompts, response) ==
    [prompts EXCEPT ![Len(prompts)].response = response]

\* input() of the first prompt returns a response that declines
DeclineFriday ==
    /\ cli_pc = "ask_friday"
    /\ \E response \in Responses :
          /\ ~AcceptsResponse(response)
          /\ cli_prompts' = Answered(cli_prompts, response)
    /\ cli_pc' = "exit"
    /\ cli_exit' = "date validation"
    /\ UNCHANGED <<CliRest, cli_target, cli_loaded, cli_saved,
                   kvars>>

\* input() of the first prompt returns 'y' or 'Y'
AcceptFriday ==
    /\ cli_pc = "ask_friday"
    /\ \E response \in Responses :
          /\ AcceptsResponse(response)
          /\ PastCheck(cli_target, Answered(cli_prompts, response))
    /\ UNCHANGED <<CliRest, cli_target, cli_exit, cli_loaded, cli_saved,
                   kvars>>

DeclinePast ==
    /\ cli_pc = "ask_past"
    /\ \E response \in Responses :
          /\ ~AcceptsResponse(response)
          /\ cli_prompts' = Answered(cli_prompts, response)
    /\ cli_pc' = "exit"
    /\ cli_exit' = "date validation"
    /\ UNCHANGED <<CliRest, cli_target, cli_loaded, cli_saved,
                   kvars>>

AcceptPast ==
    /\ cli_pc = "ask_past"
    /\ \E response \in Responses :
          /\ AcceptsResponse(response)
          /\ cli_prompts' = Answered(cli_prompts, response)
    /\ cli_pc' = "validated"
    /\ UNCHANGED <<CliRest, cli_target, cli_exit, cli_loaded, cli_saved,
                   kvars>>

\* The catalog files main is run on: those of the web pipeline and a
\* UTF-16 file separated by commas.
CliFiles == TextFiles \cup {TextFile("utf-16", ",", 8)}

\* pd.read_csv(file_path, dtype=str, encoding='utf-16', sep='|'): the numbers
\* of columns the read can give, 0 when it raises.  The bytes of a file in
\* another encoding either fail to decode as UTF-16 or decode to text that
\* holds no separator, one column.
LoadOutcomes(file) ==
    IF file.encoding = "utf-16"
    THEN {read_csv_columns(file, "utf-16", "|")}
    ELSE {0, 1}

\* The columns of shopify_row, in the order of the dict.
ShopifyColumns ==
    <<"Handle", "Variant Barcode", "Title", "Body (HTML)", "Vendor",
      "Product Category", "Type", "Tags", "Option1 Name", "Option1 Value",
      "Variant Grams", "Variant Inventory Tracker", "Variant Inventory Policy",
      "Variant Fulfillment Service", "Variant Price", "Variant Compare At Price",
      "Variant Requires Shipping", "Variant Taxable", "Image Src", "Gift Card",
      "Variant Weight Unit", "Cost per item", "Included / United States",
      "Included / International", "Status">>

\* pd.DataFrame(shopify_data): the columns are the keys of the row dicts, and
\* a frame made from the empty list has no columns.
FrameColumns(rows) == IF rows = 0 THEN <<>> ELSE ShopifyColumns

\* df.to_csv(filename, index=False): the header and the rows of the frame
CsvFile(columns, rows) == [header |-> columns, rows |-> rows]

\* load_alliance_data returns None: the file is not found (None here) or
\* read_csv raises on it, and main returns
LoadFails ==
    /\ cli_pc = "validated"
    /\ \E file \in CliFiles \cup {None} :
          /\ IF file = None THEN TRUE ELSE 0 \in LoadOutcomes(file)
          /\ cli_file' = file
    /\ cli_pc' = "exit"
    /\ cli_exit' = "load"
    /\ UNCHANGED <<CliRest, cli_target, cli_prompts, cli_loaded, cli_saved,
                   cli_columns, cli_written>>

\* load_alliance_data returns the frame read_csv made
LoadCatalog ==
    /\ cli_pc = "validated"
    /\ \E file \in CliFiles :
          /\ cli_file' = file
          /\ cli_columns' \in LoadOutcomes(file) \ {0}
    /\ cli_loaded' = TRUE
    /\ cli_pc' = "loaded"
    /\ UNCHANGED <<CliRest, cli_target, cli_prompts, cli_exit, cli_saved,
                   cli_written>>

\* alliance_df['FormatDesc'] raises KeyError on a frame whose one column is
\* the whole line: the process ends before anything is saved
TransformRaises ==
    /\ cli_pc = "loaded"
    /\ cli_columns = 1
    /\ cli_pc' = "exit"
    /\ cli_exit' = "KeyError"
    /\ UNCHANGED <<CliRest, cli_target, cli_prompts, cli_loaded, cli_saved,
                   kvars>>

\* transform_to_shopify returns a frame of some number of rows, none when no
\* record matched, and save_csv writes it
TransformAndSave ==
    /\ cli_pc = "loaded"
    /\ cli_columns > 1
    /\ \E rows \in 0..MaxRecords :
          cli_written' = CsvFile(FrameColumns(rows), rows)
    /\ cli_saved' = TRUE
    /\ cli_pc' = "saved"
    /\ UNCHANGED <<CliRest, cli_target, cli_prompts, cli_exit, cli_loaded,
                   cli_file, cli_columns>>

NextCli ==
    \/ ParseFails
    \/ WarnNotFriday
    \/ FridayOk
    \/ DeclineFriday
    \/ AcceptFriday
    \/ DeclinePast
    \/ AcceptPast
    \/ LoadFails
    \/ LoadCatalog
    \/ TransformRaises
    \/ TransformAndSave

SpecCli == InitCli /\ [][NextCli]_vars

\* ------------------------------------------------ the default target date
DefaultTodays ==
    {dt \in {Time(DT(ym[1], ym[2], d), hms[1], hms[2], hms[3]) :
                ym \in {<<2024, 2>>, <<2025, 12>>, <<2026, 1>>}, d \in 1..31,
                hms \in {<<0, 0, 0>>, <<23, 59, 59>>}} :
        dt.d <= DaysInMonth(dt.y, dt.m)}

InitDefault ==
    /\ TransformIdle
    /\ PricingIdle
    /\ HandleIdle
    /\ WebIdle
    /\ DateIdle
    /\ CliIdle
    /\ ExtraIdle
    /\ def_today \in DefaultTodays
    /\ def_default = None
    /\ def_fridays = <<>>
    /\ def_release = None
    /\ def_warnings = NotCalled

DefaultRest == <<tvars, pvars, hvars, wvars, dvars, cvars, xvars, def_today>>

CallCalculateDefaultFriday ==
    /\ def_default = None
    /\ def_default' = calculate_default_friday(def_today)
    /\ UNCHANGED <<DefaultRest, def_fridays, def_release, def_warnings>>

CallCalculateNextFourFridays ==
    /\ def_fridays = <<>>
    /\ def_fridays' = calculate_next_four_fridays(def_today)
    /\ UNCHANGED <<DefaultRest, def_default, def_release, def_warnings>>

CallCalculateTargetReleaseDate ==
    /\ def_release = None
    /\ def_release' = calculate_target_release_date(def_today)
    /\ UNCHANGED <<DefaultRest, def_default, def_fridays, def_warnings>>

\* validate_date(target_date) on the default the date input starts with
CallValidateDate ==
    /\ def_default # None
    /\ def_warnings = NotCalled
    /\ def_warnings' = validate_date(def_default, def_today)
    /\ UNCHANGED <<DefaultRest, def_default, def_fridays, def_release>>

NextDefault ==
    \/ CallCalculateDefaultFriday
    \/ CallCalculateNextFourFridays
    \/ CallCalculateTargetReleaseDate
    \/ CallValidateDate

SpecDefault == InitDefault /\ [][NextDefault]_vars

\* --------------------------------- format_vinyl_details called on its own
MaxSegments == 3

\* The texts found between the carets of a DelimMisc value.
Segments ==
    { <<"L", "T", "D">>,
      <<"C", "O", "L", "O", "R", "E", "D", " ", "V", "I", "N", "Y", "L">>,
      <<"G", "A", "T", "E", "F", "O", "L", "D">>,
      <<" ", "2", "L", "P", " ">>,
      <<"E", "P", "I", "C", " ", "R", "S", "D">>,
      <<"A", " ", "/", " ", "B">>,
      <<"n", "a", "n">>,
      <<" ">>,
      <<>> }

DetailTexts == {Join(q, <<"^">>) : q \in SeqsUpTo(Segments, MaxSegments) \ {<<>>}}

InitDetails ==
    /\ TransformIdle
    /\ PricingIdle
    /\ HandleIdle
    /\ WebIdle
    /\ DateIdle
    /\ CliIdle
    /\ DefaultIdle
    /\ SavingIdle
    /\ SessionIdle
    /\ details_arg \in {Str(x) : x \in DetailTexts} \cup {NaN, None}
    /\ details_ret = Pending

CallFormatVinylDetails ==
    /\ details_ret = Pending
    /\ details_ret' = Str(format_vinyl_details(details_arg))
    /\ UNCHANGED <<tvars, pvars, hvars, wvars, dvars, cvars, fvars, kvars,
                   avars, details_arg>>

NextDetails == CallFormatVinylDetails

SpecDetails == InitDetails /\ [][NextDetails]_vars

\* ----------------------------------------------------- the web session gate
Passwords == {Str(<<>>), Str(<<"a">>), Str(<<"b">>)}
PasswordSettings == Passwords \cup {None}

InitSession ==
    /\ TransformIdle
    /\ PricingIdle
    /\ HandleIdle
    /\ WebIdle
    /\ DateIdle
    /\ CliIdle
    /\ DefaultIdle
    /\ DetailsIdle
    /\ SavingIdle
    /\ secret_password \in PasswordSettings
    /\ env_password \in PasswordSettings
    /\ session_authenticated = Absent
    /\ session_auth_hash = Absent
    /\ page = "none"
    /\ password_input = None
    /\ auth_backup = None
    /\ run_pc = "idle"

SessionRest == <<tvars, pvars, hvars, wvars, dvars, cvars, fvars, gvars, kvars>>

admin_password == check_admin_password(secret_password, env_password)
Authenticated ==
    check_authentication(session_authenticated, session_auth_hash, admin_password)

\* main, when the run was not started by a form or a button: the login form
\* is shown unless check_authentication() holds
Render ==
    /\ run_pc = "idle"
    /\ page' = IF Authenticated THEN "protected" ELSE "login"
    /\ UNCHANGED <<SessionRest, secret_password, env_password,
                   session_authenticated, session_auth_hash, password_input,
                   auth_backup, run_pc>>

\* The login form is submitted.  main shows the form only when
\* check_authentication() fails; the matching password sets both session
\* fields and st.rerun() renders the page again.
SubmitLogin ==
    /\ run_pc = "idle"
    /\ page = "login"
    /\ \E input \in Passwords :
          /\ password_input' = input
          /\ IF Authenticated
             THEN /\ page' = "protected"
                  /\ UNCHANGED <<session_authenticated, session_auth_hash>>
             ELSE IF Truthy(admin_password) /\ input = admin_password
             THEN /\ session_authenticated' = Str(<<"True">>)
                  /\ session_auth_hash' = hash_password(admin_password)
                  /\ page' = IF check_authentication(session_authenticated',
                                     session_auth_hash', admin_password)
                             THEN "protected" ELSE "login"
             ELSE /\ page' = "login"
                  /\ UNCHANGED <<session_authenticated, session_auth_hash>>
    /\ UNCHANGED <<SessionRest, secret_password, env_password, auth_backup, run_pc>>

\* The Logout button of the protected page is pressed: the button is
\* reached only when check_authentication() holds; it clears both fields
\* and st.rerun() renders the page again.
ClickLogout ==
    /\ run_pc = "idle"
    /\ page = "protected"
    /\ IF Authenticated
       THEN /\ session_authenticated' = Str(<<"False">>)
            /\ session_auth_hash' = Absent
            /\ page' = IF check_authentication(session_authenticated',
                               session_auth_hash', admin_password)
                       THEN "protected" ELSE "login"
       ELSE /\ page' = "login"
            /\ UNCHANGED <<session_authenticated, session_auth_hash>>
    /\ UNCHANGED <<SessionRest, secret_password, env_password, password_input,
                   auth_backup, run_pc>>

\* The administrator sets, changes or removes one of the two places the
\* password is configured in.
ChangePassword ==
    /\ \E secret \in PasswordSettings, env \in PasswordSettings :
          /\ <<secret, env>> # <<secret_password, env_password>>
          /\ secret_password' = secret
          /\ env_password' = env
    /\ UNCHANGED <<SessionRest, session_authenticated, session_auth_hash, page,
                   password_input, auth_backup, run_pc>>

\* The generate button of the protected page is pressed and
\* process_alliance_catalog saves the auth fields.
StartProcessing ==
    /\ run_pc = "idle"
    /\ page = "protected"
    /\ IF Authenticated
       THEN /\ auth_backup' =
                 [authenticated |-> session_get(session_authenticated, Str(<<"False">>)),
                  auth_hash |-> session_get(session_auth_hash, Str(<<>>))]
            /\ run_pc' = "running"
            /\ page' = "protected"
       ELSE /\ page' = "login"
            /\ UNCHANGED <<auth_backup, run_pc>>
    /\ UNCHANGED <<SessionRest, secret_password, env_password,
                   session_authenticated, session_auth_hash, password_input>>

\* A chunk of the catalog is read: the saved fields are written back
RestoreInChunk ==
    /\ run_pc = "running"
    /\ session_authenticated' = auth_backup.authenticated
    /\ session_auth_hash' = auth_backup.auth_hash
    /\ UNCHANGED <<SessionRest, secret_password, env_password, page,
                   password_input, auth_backup, run_pc>>

\* The run returns the frame: the saved fields are written back
FinishProcessing ==
    /\ run_pc = "running"
    /\ session_authenticated' = auth_backup.authenticated
    /\ session_auth_hash' = auth_backup.auth_hash
    /\ run_pc' = "idle"
    /\ UNCHANGED <<SessionRest, secret_password, env_password, page,
                   password_input, auth_backup>>

\* The run returns an error or the empty frame: nothing is written back
ProcessingReturnsEarly ==
    /\ run_pc = "running"
    /\ run_pc' = "idle"
    /\ UNCHANGED <<SessionRest, secret_password, env_password,
                   session_authenticated, session_auth_hash, page,
                   password_input, auth_backup>>

NextSession ==
    \/ Render
    \/ SubmitLogin
    \/ ClickLogout
    \/ ChangePassword
    \/ StartProcessing
    \/ RestoreInChunk
    \/ FinishProcessing
    \/ ProcessingReturnsEarly

SpecSession == InitSession /\ [][NextSession]_vars

\* ------------------------------------------------------------------ claims
NonEmptyTrimmed(value) ==
    IF value.t = "str" THEN Strip(value.s) # <<>> ELSE FALSE

OnTargetDate(r, target) ==
    IF r.AvailDt.t # "str" THEN FALSE
    ELSE LET p == parse_avail_date(r.AvailDt) IN
         IF p.t # "datetime" THEN FALSE
         ELSE <<p.y, p.m, p.d>> = <<target.y, target.m, target.d>>

AcceptedFormat(r) ==
    IF r.FormatDesc.t # "str" THEN FALSE
    ELSE Strip(r.FormatDesc.s) \in {TWELVE_INCH_SINGLE, SEVEN_INCH_SINGLE, VINYL_LP}

\* The record the claims call matched: both required fields non-empty once
\* trimmed, AvailDt parsing to the target's calendar date, and the (trimmed)
\* FormatDesc one of the three accepted formats.
DescribedMatch(r, target) ==
    /\ NonEmptyTrimmed(r.Artist)
    /\ NonEmptyTrimmed(r.ItemName)
    /\ OnTargetDate(r, target)
    /\ AcceptedFormat(r)

\* C1: a loop step counts the record as a vinyl match if and only if its
\* trimmed Artist and ItemName are non-empty, its AvailDt parses to the target
\* calendar date (time of day ignored) and its FormatDesc is an accepted
\* format; every other record is skipped and adds no output row.
C1_MatchedIffDescribed ==
    [][idx' = idx + 1 =>
        LET r == alliance_df[idx] IN
        /\ (vinyl_count' = vinyl_count + 1) <=> DescribedMatch(r, target_date)
        /\ ~DescribedMatch(r, target_date) =>
              /\ vinyl_count' = vinyl_count
              /\ skipped_count' = skipped_count + 1
              /\ shopify_data' = shopify_data]_vars

\* C1 witness: a record with a time of day on the target date and a padded
\* format was counted as a match, and another record was skipped.
C1_Witness ==
    /\ vinyl_count >= 1
    /\ \E i \in 1..Len(branch) :
          /\ branch[i] = "row"
          /\ alliance_df[i].AvailDt = Str(Sep19Noon)
    /\ \E j \in 1..Len(branch) :
          /\ branch[j] \in {"missing", "date", "format"}
          /\ ~DescribedMatch(alliance_df[j], target_date)

FirstFailingStage(r, target) ==
    IF ~(NonEmptyTrimmed(r.Artist) /\ NonEmptyTrimmed(r.ItemName)) THEN "missing"
    ELSE IF ~OnTargetDate(r, target) THEN "date"
    ELSE IF ~AcceptedFormat(r) THEN "format"
    ELSE "none"

\* C2: a record failing a filter stage leaves the loop body by the exit of
\* its first failing stage (missing field, then date, then format) and is
\* added to the skipped count exactly once; a date mismatch is not counted as
\* a date match whatever the format, a format mismatch on the target date is
\* counted as a date match and not as a vinyl match.
C2_CountedUnderFirstFailingStage ==
    [][idx' = idx + 1 =>
        LET why == FirstFailingStage(alliance_df[idx], target_date) IN
        /\ why # "none" =>
              /\ branch' = Append(branch, why)
              /\ skipped_count' = skipped_count + 1
              /\ vinyl_count' = vinyl_count
        /\ why \in {"missing", "date"} => date_matches' = date_matches
        /\ why = "format" => date_matches' = date_matches + 1]_vars

OneDayOff(r, target) ==
    IF r.AvailDt.t # "str" THEN FALSE
    ELSE LET p == parse_avail_date(r.AvailDt) IN
         IF p.t # "datetime" THEN FALSE
         ELSE /\ p.y = target.y
              /\ p.m = target.m
              /\ (p.d = target.d + 1 \/ p.d = target.d - 1)

\* C2 witness: one record a day off the target left by the date exit although
\* its format is accepted, and a CD on the target date left by the format exit.
C2_Witness ==
    /\ \E i \in 1..Len(branch) :
          /\ OneDayOff(alliance_df[i], target_date)
          /\ AcceptedFormat(alliance_df[i])
          /\ branch[i] = "date"
    /\ \E j \in 1..Len(branch) :
          /\ alliance_df[j].FormatDesc = Str(<<"C", "D">>)
          /\ OnTargetDate(alliance_df[j], target_date)
          /\ branch[j] = "format"
    /\ skipped_count = 2

IsFiniteFloat(x) == IF x.t = "float" THEN x.k = "fin" ELSE FALSE

\* The MSRP is a decimal number: float() accepts it with a finite value.
DecimalPrice(msrp) == IsFiniteFloat(IF msrp.t = "str" THEN ToFloat(msrp) ELSE None)

\* The output row built from record i: rows are appended in record order.
RowOf(i) == shopify_data[Cardinality({j \in 1..i : branch[j] = "row"})]

\* C3: a matched record whose MSRP is absent or not a decimal number adds no
\* output row, and every output row carries three finite prices.
C3_NoPriceNoRow ==
    /\ \A i \in 1..Len(branch) :
          (DescribedMatch(alliance_df[i], target_date)
              /\ ~DecimalPrice(alliance_df[i].MSRP)) => branch[i] # "row"
    /\ \A n \in 1..Len(shopify_data) :
          /\ IsFiniteFloat(shopify_data[n].Cost_per_item)
          /\ IsFiniteFloat(shopify_data[n].Variant_Compare_At_Price)
          /\ IsFiniteFloat(shopify_data[n].Variant_Price)

\* C4: a matched record whose MSRP is 0 or negative yields an output row with
\* the formula's values; for MSRP 0 these are cost 0, compare-at 13, price 6.
C4_ZeroOrNegativeIsPriced ==
    \A i \in 1..Len(branch) :
        LET r == alliance_df[i]
            m == IF r.MSRP.t = "str" THEN ToFloat(r.MSRP) ELSE None
        IN (DescribedMatch(r, target_date) /\ IsFiniteFloat(m) /\ m.v <= 0) =>
              /\ branch[i] = "row"
              /\ m.v = 0 =>
                    /\ RowOf(i).Cost_per_item = Fin(0)
                    /\ RowOf(i).Variant_Compare_At_Price = Fin(13 * Unit)
                    /\ RowOf(i).Variant_Price = Fin(6 * Unit)

\* C5: when the run has ended, the records processed are the output rows plus
\* the records counted as skipped.
C5_AllRecordsAccounted ==
    pc = "done" => Len(alliance_df) = Len(shopify_data) + skipped_count

\* C6: a skipped record never ends the loop: when the run has ended every
\* record has been evaluated, the output holds one row per record that left
\* by the row exit, and two equal records of one run both yield a row or both
\* yield none, whatever was processed before them.
C6_NoRecordAbortsTheBatch ==
    /\ pc = "done" => Len(branch) = Len(alliance_df)
    /\ Len(shopify_data) = Cardinality({i \in 1..Len(branch) : branch[i] = "row"})
    /\ \A i, j \in 1..Len(branch) :
          alliance_df[i] = alliance_df[j] => (branch[i] = "row" <=> branch[j] = "row")

\* C6 witness: the run ended with a row built from a record that came after
\* a record skipped for its price and after one skipped by a filter.
C6_Witness ==
    /\ pc = "done"
    /\ \E i, j, n \in 1..Len(branch) :
          /\ i < n /\ j < n
          /\ branch[i] = "price"
          /\ branch[j] \in {"missing", "date", "format"}
          /\ branch[n] = "row"

PriceValue(msrp) == IF msrp.t = "float" THEN msrp ELSE ToFloat(msrp)

\* C7: for a finite price P >= 0, estimated_cost is 0.77 x P and club_price
\* is at least estimated_cost + 6.
C7_CostAndClubFloor ==
    (pricing_ret # <<>> /\ IsFiniteFloat(PriceValue(msrp_arg))) =>
        LET P == PriceValue(msrp_arg) IN
        P.v >= 0 =>
            /\ IsFiniteFloat(pricing_ret[1])
            /\ 100 * pricing_ret[1].v = 77 * P.v
            /\ IsFiniteFloat(pricing_ret[3])
            /\ pricing_ret[3].v >= pricing_ret[1].v + 6 * Unit

\* C7 witness: calculate_pricing returned for the price 24.98 given as text.
C7_Witness ==
    /\ msrp_arg = Str(<<"2", "4", ".", "9", "8">>)
    /\ pricing_ret # <<>>
    /\ pricing_ret[1] = Fin(192346)

\* C8: with first = estimated_cost + club_base_markup, a cost difference
\* first - cost above 14 adds 4, a difference re-evaluated after that addition
\* above 20 adds 9 more, and a difference of at most 14 (14 itself included)
\* adds nothing; a re-evaluated difference of exactly 20 adds no 9.
C8_ClubTiers ==
    (pricing_ret # <<>> /\ IsFiniteFloat(PriceValue(msrp_arg))) =>
        LET cost == pricing_ret[1].v
            club == pricing_ret[3].v
            first == cost + club_base_markup * Unit
            diff1 == first - cost
            diff2 == (first + 4 * Unit) - cost
        IN /\ diff1 <= 14 * Unit => club = first
           /\ (diff1 > 14 * Unit /\ diff2 <= 20 * Unit) => club = first + 4 * Unit
           /\ (diff1 > 14 * Unit /\ diff2 > 20 * Unit) => club = first + 13 * Unit

\* C8 witness: a price whose cost difference stays at most 14 got no addition.
C8_Witness ==
    /\ msrp_arg = Fin(250000)
    /\ pricing_ret # <<>>
    /\ pricing_ret[3].v - pricing_ret[1].v <= 14 * Unit
    /\ pricing_ret[3] = Fin(252500)

\* C9: with base_sell = 0.77 x P + 6, the adjusted list price is
\* base_sell + 7 when P < base_sell + 6 and P itself otherwise; a price that
\* is not finite compares false and is returned unchanged.
C9_AdjustedListPrice ==
    (pricing_ret # <<>> /\ PriceValue(msrp_arg).t = "float") =>
        LET P == PriceValue(msrp_arg) IN
        IF P.k # "fin" THEN pricing_ret[2] = P
        ELSE IF 100 * P.v < 77 * P.v + 100 * 12 * Unit
             THEN /\ IsFiniteFloat(pricing_ret[2])
                  /\ 100 * pricing_ret[2].v = 77 * P.v + 100 * 13 * Unit
             ELSE pricing_ret[2] = P

\* C9 witness: 52.17 is the last price in whole cents below base_sell + 6
\* and was raised to base_sell + 7.
C9_Witness ==
    /\ msrp_arg = Fin(521700)
    /\ pricing_ret # <<>>
    /\ pricing_ret[2] = Fin(531709)

\* C10: when the run has ended, the number of output rows is the number of
\* records that passed both filter stages and have a valid price.
C10_OneRowPerMatchedAndPriced ==
    pc = "done" =>
        Len(shopify_data) =
            Cardinality({i \in 1..Len(alliance_df) :
                            /\ DescribedMatch(alliance_df[i], target_date)
                            /\ DecimalPrice(alliance_df[i].MSRP)})

HandleChars == LowerLetters \cup Digits \cup {"-"}
WellFormedHandle(h) ==
    /\ \A i \in 1..Len(h) : h[i] \in HandleChars
    /\ h # <<>> => (h[1] # "-" /\ h[Len(h)] # "-")
    /\ \A i \in 1..(Len(h) - 1) : ~(h[i] = "-" /\ h[i + 1] = "-")

\* C11: within one run (one target date), two output rows built from records
\* that differ in artist, title or detail have different handles.
C11_DistinctRecordsDistinctHandles ==
    (Len(handles) = 2 /\ handle_rows[1] # handle_rows[2])
        => handles[1] # handles[2]

\* C12: every handle create_handle returns contains only characters of
\* [a-z0-9-], has no leading '-', no trailing '-' and no two consecutive '-',
\* and two calls with the same inputs return the same handle.
C12_HandleWellFormed ==
    /\ \A i \in 1..Len(handles) : WellFormedHandle(handles[i])
    /\ (Len(handles) = 2 /\ handle_rows[1] = handle_rows[2])
          => handles[1] = handles[2]
C12_Witness ==
    /\ Len(handles) = 2
    /\ handle_rows[1] = handle_rows[2]
    /\ handle_rows[1] = HandleRecord(Str(<<"-">>), Str(<<"T", "!">>),
                                     Str(<<"R", "E", "D", "^", "L", "P">>))
    /\ handle_date = DT(2025, 9, 19)
    /\ handles[2] = <<"t", "-", "r", "e", "d", "-", "l", "p", "-",
                      "2", "0", "2", "5", "0", "9", "1", "9">>

\* C13: when process_alliance_catalog has returned, by success, by the
\* empty-result return or by any error return, neither the downloaded
\* temporary archive nor the extracted temporary text file still exists.
C13_TempFilesRemovedOnReturn ==
    wpc = "returned" => (~tmp_exists /\ ~extracted_exists)

FixedOrder ==
    << <<"utf-16", "|">>, <<"utf-16", ",">>, <<"utf-16", "\t">>,
       <<"utf-16-le", "|">>, <<"utf-16-le", ",">>, <<"utf-16-le", "\t">>,
       <<"utf-16-be", "|">>, <<"utf-16-be", ",">>, <<"utf-16-be", "\t">>,
       <<"utf-8", "|">>, <<"utf-8", ",">>, <<"utf-8", "\t">>,
       <<"latin-1", "|">>, <<"latin-1", ",">>, <<"latin-1", "\t">> >>
PastDetection == wpc \in {"chunks", "transform"}
                 \/ (wpc = "returned" /\ web_result.error \in {"none", "Error processing data"})

\* C14: format detection tries the (encoding, delimiter) combinations in the
\* fixed order, 16-bit encodings before 8-bit ones, each with pipe, comma,
\* tab; it accepts the first combination whose sample has more than 5
\* columns and tries no later one; 5 columns are not accepted; if none is
\* accepted the run returns the format-detection error and no rows.
C14_DetectionOrder ==
    /\ Len(probes) <= Len(FixedOrder)
    /\ \A i \in 1..Len(probes) :
          /\ <<probes[i].combo.encoding, probes[i].combo.separator>> = FixedOrder[i]
          /\ probes[i].columns =
                read_csv_columns(analysis_file, FixedOrder[i][1], FixedOrder[i][2])
          /\ i < Len(probes) => probes[i].columns <= 5
    /\ final_format # None =>
          /\ probes[Len(probes)].columns > 5
          /\ final_format = probes[Len(probes)].combo
    /\ PastDetection => final_format # None
    /\ (wpc = "returned" /\ web_result.error = "Could not detect file format") =>
          /\ Len(probes) = Len(FixedOrder)
          /\ \A i \in 1..Len(probes) : probes[i].columns <= 5
          /\ web_result.frame = None
          /\ matched_records = <<>>
          /\ shopify_data = <<>>
    /\ (wpc = "detect" /\ Len(probes) > 0) => probes[Len(probes)].columns <= 5
C14_Witness ==
    /\ wpc = "chunks"
    /\ analysis_file = TextFile("utf-8", ",", 6)
    /\ Len(probes) = 11
    /\ probes[10].columns = 1
    /\ final_format = [encoding |-> "utf-8", separator |-> ","]

FileEntries(file_list) ==
    {i \in 1..Len(file_list) : ~EndsWith(file_list[i].filename, <<"/">>)}
IsTxtName(name) ==
    /\ Len(name) >= 4
    /\ name[Len(name) - 3] = "."
    /\ name[Len(name) - 2] \in {"t", "T"}
    /\ name[Len(name) - 1] \in {"x", "X"}
    /\ name[Len(name)] \in {"t", "T"}
SelectionDone == zip_entries.readable /\ wpc \notin {"idle", "start", "downloaded"}

\* C15: the selected entry has a '.txt' suffix whenever at least one file
\* entry has one, and is otherwise an entry of maximal size; an archive with
\* at least one file entry always yields a selected entry, also when every
\* file entry has size 0.
C15_EntrySelection ==
    SelectionDone =>
        LET l == zip_entries.namelist
            files == FileEntries(l)
        IN /\ files # {} => target_file # None
           /\ target_file # None =>
                 \E i \in files :
                    /\ l[i].filename = target_file.s
                    /\ IF \E j \in files : IsTxtName(l[j].filename)
                       THEN IsTxtName(l[i].filename)
                       ELSE \A j \in files : l[j].file_size <= l[i].file_size

SinglePassRow(r, target) ==
    LET price == calculate_pricing(r.MSRP) IN
    [Title |-> create_title(safe_get(r, "Artist"), safe_get(r, "ItemName"),
                            safe_get(r, "DelimMisc")),
     Tags |-> Tags(target),
     Variant_Grams |-> calculate_weight_grams(Strip(r.FormatDesc.s)),
     Variant_Price |-> price[3],
     Variant_Compare_At_Price |-> price[2],
     Cost_per_item |-> price[1],
     Status |-> "draft"]
\* The rows of one pass over a whole catalog: a row for each record that
\* matches and gets a cost, in catalog order.
RECURSIVE SinglePass(_, _)
SinglePass(catalog, target) ==
    IF catalog = <<>> THEN <<>>
    ELSE LET r == Head(catalog)
             rest == SinglePass(Tail(catalog), target)
         IN IF DescribedMatch(r, target)
            THEN IF Truthy(calculate_pricing(r.MSRP)[1])
                 THEN <<SinglePassRow(r, target)>> \o rest
                 ELSE rest
            ELSE rest

\* C16: for any record sequence and any chunk size, the chunked pre-filter
\* followed by transform_to_shopify on the pre-matched records returns the
\* same rows in the same order as transform_to_shopify applied once to the
\* whole record sequence.
C16_ChunkingKeepsResult ==
    /\ (wpc = "idle" /\ pc = "done") =>
          shopify_data = SinglePass(alliance_df, target_date)
    /\ (wpc = "returned" /\ web_result.error = "none") =>
          web_result.frame = SinglePass(web_catalog, target_date)
C16_Witness ==
    /\ wpc = "returned"
    /\ web_result.error = "none"
    /\ web_chunk = 1
    /\ Len(web_catalog) = 3
    /\ Len(matched_records) = 2
    /\ ~WebKeeps(web_catalog[2], target_date)
    /\ Len(web_result.frame) = 2
    /\ web_result.frame[1] # web_result.frame[2]

NullMarkers == {<<a, b, c>> : a \in {"n", "N"}, b \in {"a", "A"}, c \in {"n", "N"}}
SevenFormats ==
    << <<"%Y", "-", "%m", "-", "%d", " ", "%H", ":", "%M", ":", "%S">>,
       <<"%Y", "-", "%m", "-", "%d">>,
       <<"%m", "/", "%d", "/", "%Y", " ", "%H", ":", "%M", ":", "%S">>,
       <<"%m", "/", "%d", "/", "%Y">>,
       <<"%m", "-", "%d", "-", "%Y">>,
       <<"%Y", "%m", "%d">>,
       <<"%m", "/", "%d", "/", "%y">> >>
RECURSIVE FirstSuccess(_, _)
FirstSuccess(s, formats) ==
    IF formats = <<>> THEN None
    ELSE IF Strptime(s, Head(formats)) # None THEN Strptime(s, Head(formats))
    ELSE FirstSuccess(s, Tail(formats))

\* C17: parse_avail_date returns on every text; an empty, whitespace-only or
\* null-marker ('nan' in any letter case) text returns none; otherwise the
\* result is the first successful parse among the seven formats in their
\* fixed order, and none when no format matches.
C17_ParseAvailDate ==
    date_ret # Pending =>
        /\ date_ret.t \in {"none", "datetime"}
        /\ IF IsNa(date_text) THEN date_ret = None
           ELSE LET s == Strip(date_text.s) IN
                IF s = <<>> \/ s \in NullMarkers THEN date_ret = None
                ELSE date_ret = FirstSuccess(s, SevenFormats)
C17_Witness ==
    /\ date_made_from =
          Written(Time(DT(2025, 9, 9), 13, 30, 59),
                  <<"%m", "/", "%d", "/", "%Y", " ", "%H", ":", "%M", ":", "%S">>)
    /\ date_text.s[1] = " "
    /\ date_ret = Time(DT(2025, 9, 9), 13, 30, 59)

WasWritten == date_ret # Pending /\ date_made_from # NotWritten
SameCalendarDate(a, b) ==
    IF a.t = "datetime" /\ b.t = "datetime"
    THEN <<a.y, a.m, a.d>> = <<b.y, b.m, b.d>>
    ELSE FALSE
TwoDigitYearFormat == <<"%m", "/", "%d", "/", "%y">>

\* C18: for each of the seven supported formats and every calendar date,
\* formatting the date with that format and parsing the text back with
\* parse_avail_date yields the original calendar date.
C18_RoundTripEveryDate ==
    WasWritten => SameCalendarDate(date_ret, date_made_from.dt)

\* C18 as it holds: the six formats with a four-digit year give the original
\* calendar date back for every date; MM/DD/YY gives it back exactly for the
\* years 1969 to 2068, and for any other year the same month and day in the
\* year of 1969..2068 with the same last two digits.
C18_RoundTripWithinCentury ==
    WasWritten =>
        LET dt == date_made_from.dt IN
        IF date_made_from.fmt # TwoDigitYearFormat
        THEN SameCalendarDate(date_ret, dt)
        ELSE /\ date_ret.t = "datetime"
             /\ <<date_ret.m, date_ret.d>> = <<dt.m, dt.d>>
             /\ date_ret.y \in 1969..2068
             /\ date_ret.y % 100 = dt.y % 100
             /\ SameCalendarDate(date_ret, dt) <=> dt.y \in 1969..2068
C18_Witness ==
    /\ WasWritten
    /\ date_made_from.fmt = TwoDigitYearFormat
    /\ date_made_from.dt = DT(2025, 9, 29)
    /\ date_ret = DT(2025, 9, 29)

SeptemberFridays == {DT(2025, 9, 12), DT(2025, 9, 19), DT(2025, 9, 26)}
StrictlyAfter(a, b) ==
    \/ a.y > b.y
    \/ (a.y = b.y /\ a.m > b.m)
    \/ (a.y = b.y /\ a.m = b.m /\ a.d > b.d)
ViolatedConditions(target, today) ==
    (IF target \notin SeptemberFridays THEN <<"not a Friday">> ELSE <<>>)
    \o (IF ~StrictlyAfter(target, today) THEN <<"in the past">> ELSE <<>>)
OperatorAccepts(response) == response \in {<<"y">>, <<"Y">>}
Waiting == cli_pc \in {"ask_friday", "ask_past"}
AllAccepted ==
    /\ ~Waiting
    /\ \A i \in 1..Len(cli_prompts) : OperatorAccepts(cli_prompts[i].response)
\* main got to the load step: it is there or past it, or it ended at or
\* after that step
Proceeded ==
    cli_pc \in {"validated", "loaded", "saved"} \/ cli_exit \in {"load", "KeyError"}

\* C19: a target date that is not a Friday and/or not strictly after today
\* raises one warning prompt per violated condition, the Friday check first,
\* a later prompt only after the earlier one was accepted; the run proceeds
\* to loading the catalog if and only if every prompt raised was accepted; a
\* Friday strictly in the future raises no prompt; a declined prompt ends
\* the run before any catalog is read or output written.
C19_WarningsAreNonBlocking ==
    IF cli_target = None THEN ~cli_loaded /\ ~cli_saved /\ cli_prompts = <<>>
    ELSE LET violated == ViolatedConditions(cli_target, cli_today)
             n == Len(cli_prompts)
         IN /\ n <= Len(violated)
            /\ \A i \in 1..n : cli_prompts[i].check = violated[i]
            /\ \A i \in 1..(n - 1) : OperatorAccepts(cli_prompts[i].response)
            /\ Proceeded <=> (AllAccepted /\ n = Len(violated))
            /\ (cli_loaded \/ cli_saved) => Proceeded
            /\ violated = <<>> => (n = 0 /\ Proceeded)
            /\ (~Waiting /\ n > 0 /\ ~OperatorAccepts(cli_prompts[n].response)) =>
                  /\ cli_pc = "exit"
                  /\ cli_exit = "date validation"
                  /\ ~cli_loaded
                  /\ ~cli_saved
C19_Witness ==
    /\ cli_today = Time(DT(2025, 9, 17), 13, 30, 59)
    /\ cli_target = DT(2025, 9, 16)
    /\ Len(cli_prompts) = 2
    /\ cli_prompts[1] = Prompt("not a Friday", <<"Y">>)
    /\ cli_prompts[2] = Prompt("in the past", <<"y">>)
    /\ cli_loaded
    /\ cli_saved

KnownFriday == DT(2025, 9, 19)
IsFriday(d) == (Ordinal(d) - Ordinal(KnownFriday)) % 7 = 0
DaysAhead(d, today) == Ordinal(d) - Ordinal(today)
DaysToFirstFridayAfter(today) ==
    CHOOSE k \in 1..7 : (Ordinal(today) + k - Ordinal(KnownFriday)) % 7 = 0

\* C20: for every current day, calculate_default_friday returns a Friday
\* strictly after today, exactly 21 days after the first Friday strictly
\* after today (22 to 28 days ahead); it is the calendar date of the last
\* element of calculate_next_four_fridays (and of
\* calculate_target_release_date) and validate_date has no warning for it.
C20_DefaultIsFourthFriday ==
    /\ def_default # None =>
          /\ def_default.t = "date"
          /\ IsFriday(def_default)
          /\ DaysAhead(def_default, def_today) \in 22..28
          /\ DaysAhead(def_default, def_today) = DaysToFirstFridayAfter(def_today) + 21
    /\ (def_default # None /\ def_fridays # <<>>) =>
          /\ Len(def_fridays) = 4
          /\ DateOf(def_fridays[4]) = DateOf(def_default)
    /\ (def_default # None /\ def_release # None) =>
          DateOf(def_release) = DateOf(def_default)
    /\ def_warnings # NotCalled => def_warnings = <<>>
C20_Witness ==
    /\ def_today = Time(DT(2025, 12, 26), 23, 59, 59)
    /\ def_default = ToDate(DT(2026, 1, 23))
    /\ def_fridays # <<>>
    /\ DateOf(def_fridays[1]) = <<2026, 1, 2>>
    /\ def_warnings = <<>>

PriceFields(r) == {r.Cost_per_item, r.Variant_Compare_At_Price, r.Variant_Price}

\* C25: every price of an output row has at most two decimal places (the
\* frame is written as it stands, to_csv is given no float format).
C25_PricesHaveTwoDecimals ==
    \A n \in 1..Len(shopify_data) :
        \A x \in PriceFields(shopify_data[n]) :
            IsFiniteFloat(x) => x.v % (Unit \div 100) = 0

\* C27: neither tier addition is ever applied: for every MSRP float() accepts
\* club_price is estimated_cost + club_base_markup, and for a finite MSRP
\* club_price - estimated_cost is exactly 6.
C27_TiersNeverApplied ==
    (pricing_ret # <<>> /\ PriceValue(msrp_arg).t = "float") =>
        /\ pricing_ret[3] = FAddConst(pricing_ret[1], club_base_markup * Unit)
        /\ IsFiniteFloat(PriceValue(msrp_arg)) =>
              pricing_ret[3].v - pricing_ret[1].v = 6 * Unit

\* C27 witness: at 50.00, a price whose club price is far above both
\* thresholds, the club price is the cost plus 6.
C27_Witness ==
    /\ msrp_arg = Fin(500000)
    /\ pricing_ret # <<>>
    /\ pricing_ret[1] = Fin(385000)
    /\ pricing_ret[3] = Fin(445000)

\* C28: for every finite MSRP adjusted_msrp >= club_price + 6, and the gap is
\* exactly 7 whenever the MSRP was adjusted; an infinite MSRP is returned as
\* both prices, which compare >= as well.
C28_CompareAtAboveSell ==
    (pricing_ret # <<>> /\ PriceValue(msrp_arg).t = "float") =>
        LET P == PriceValue(msrp_arg)
            adjusted == pricing_ret[2]
            club == pricing_ret[3]
        IN /\ P.k = "fin" =>
                 /\ IsFiniteFloat(adjusted) /\ IsFiniteFloat(club)
                 /\ adjusted.v >= club.v + 6 * Unit
                 /\ adjusted # P => adjusted.v = club.v + 7 * Unit
           /\ P.k = "inf" => (adjusted = P /\ club = P)

\* C28 witness: 10.00 was adjusted upward to 20.70, 7 above the club price.
C28_Witness ==
    /\ msrp_arg = Fin(100000)
    /\ pricing_ret # <<>>
    /\ pricing_ret[2] = Fin(207000)
    /\ pricing_ret[3] = Fin(137000)

CountersOrdered ==
    /\ date_matches >= vinyl_count
    /\ vinyl_count >= Len(shopify_data)
    /\ Len(branch) = vinyl_count + skipped_count

CountersGrow ==
    /\ date_matches' >= date_matches
    /\ vinyl_count' >= vinyl_count
    /\ skipped_count' >= skipped_count

\* C29: after any prefix of the records date_matches >= vinyl_count >= number
\* of output rows and the records seen are vinyl_count + skipped_count; no
\* step decreases a counter; and the exit a record takes is decided by the
\* record and the target date alone, whatever the counters hold.
C29_CounterInvariant ==
    /\ [](CountersOrdered)
    /\ [][CountersGrow]_vars
    /\ [](\A i \in 1..Len(branch) :
            branch[i] \in {"missing", "date", "format"}
                <=> ~DescribedMatch(alliance_df[i], target_date))

\* C29 witness: the run ended with the three counters pairwise different
\* from the number of output rows and from each other.
C29_Witness ==
    /\ pc = "done"
    /\ date_matches > vinyl_count
    /\ vinyl_count > Len(shopify_data)
    /\ Len(shopify_data) > 0
    /\ skipped_count > 0

\* Title case with the acronym tokens Lp, Ep, Cd and Rsd restored and every
\* other word left as it is, the parts around a slash trimmed.
DescribedPart(part) ==
    LET t0 == TitleCase(part)
        t1 == ReplaceToken(t0, <<"L", "p">>, <<"L", "P">>)
        t2 == ReplaceToken(t1, <<"E", "p">>, <<"E", "P">>)
        t3 == ReplaceToken(t2, <<"C", "d">>, <<"C", "D">>)
        t4 == ReplaceToken(t3, <<"R", "s", "d">>, <<"R", "S", "D">>)
    IN SlashParts(t4)

DescribedDetails(value) ==
    IF IsNa(value) THEN <<>>
    ELSE IF Lower(Strip(value.s)) = <<"n", "a", "n">> THEN <<>>
    ELSE LET segments == NonEmptyParts(StripEach(Split(value.s, "^")))
         IN Join([i \in 1..Len(segments) |-> DescribedPart(segments[i])],
                 <<",", " ">>)

\* C24: format_vinyl_details returns the ', '-join of the non-empty trimmed
\* segments, each in title case with only the acronym tokens Lp, Ep, Cd and
\* Rsd restored; a missing, empty, blank or 'nan' argument gives ''.
C24_DetailsAsDescribed ==
    details_ret # Pending => details_ret = Str(DescribedDetails(details_arg))

TitleOf(r) ==
    Strip(r.Artist.s) \o <<" ", "-", " ">> \o Strip(r.ItemName.s) \o <<" ", "L", "P">>

NoDetail(r) == IF IsNa(r.DelimMisc) THEN TRUE ELSE Strip(r.DelimMisc.s) = <<>>

FixedWeight(fmt) ==
    CASE fmt = VINYL_LP -> 180
      [] fmt = TWELVE_INCH_SINGLE -> 140
      [] fmt = SEVEN_INCH_SINGLE -> 40

C22_TagsAndStatus ==
    \A n \in 1..Len(shopify_data) :
        /\ shopify_data[n].Tags
              = TagsPrefix \o Pad4(target_date.y) \o Pad2(target_date.m)
                    \o Pad2(target_date.d)
        /\ Len(shopify_data[n].Tags) = Len(TagsPrefix) + 8
        /\ shopify_data[n].Status = "draft"

\* C22 witness: a run for 2025-09-20 ended with two rows from different
\* records, both tagged preorder20250920.
C22_Witness ==
    /\ pc = "done"
    /\ target_date = DT(2025, 9, 20)
    /\ Len(shopify_data) = 2
    /\ alliance_df[1] # alliance_df[2]
    /\ \A n \in 1..2 :
          SubSeq(shopify_data[n].Tags, Len(TagsPrefix) + 1, Len(TagsPrefix) + 8)
              = <<"2", "0", "2", "5", "0", "9", "2", "0">>

DetectorAccepts(file) ==
    \E k \in 1..ComboCount :
        AcceptsSample(read_csv_columns(file, ComboAt(k).encoding, ComboAt(k).separator))

\* C23: every output file written has the 25 columns Handle ... Status,
\* whether or not it has rows.
C23_FixedColumnSet ==
    cli_saved =>
        /\ Len(cli_written.header) = 25
        /\ cli_written.header = ShopifyColumns

\* C26: a catalog file the format detection accepts, under whatever encoding
\* and separator, is loaded by load_alliance_data with the columns it has.
C26_LoadNegotiatesFormat ==
    (cli_file # None /\ cli_pc \in {"loaded", "saved", "exit"}) =>
        (DetectorAccepts(cli_file) =>
            /\ cli_loaded
            /\ cli_columns = cli_file.columns)

\* The session is marked authenticated and its stored hash is the hash of
\* the password configured now.
SessionValid ==
    /\ session_authenticated = Str(<<"True">>)
    /\ admin_password \in Passwords \ {Str(<<>>)}
    /\ session_auth_hash = Str(<<"sha256", ":">> \o admin_password.s)

ScriptRun == Render \/ SubmitLogin \/ ClickLogout \/ StartProcessing
ProcessingStep ==
    StartProcessing \/ RestoreInChunk \/ FinishProcessing \/ ProcessingReturnsEarly

\* Every script run renders the protected page if the session is valid and
\* the login form if not; a login with a password other than the configured
\* one leaves the session as it was; a logout ends with the login form; no
\* step of a processing run makes an invalid session valid.
GateRules ==
    /\ [][ScriptRun => (IF SessionValid' THEN page' = "protected"
                                         ELSE page' = "login")]_vars
    /\ [][(SubmitLogin /\ ~SessionValid /\ password_input' # admin_password)
              => (~SessionValid'
                    /\ session_authenticated' = session_authenticated
                    /\ session_auth_hash' = session_auth_hash)]_vars
    /\ [][ClickLogout => (~SessionValid' /\ page' = "login")]_vars
    /\ [][ProcessingStep => (~SessionValid => ~SessionValid')]_vars

\* C30 as stated: the gate rules, and after any change of the configured
\* password the session is not valid, so that the next render shows the
\* login form.
C30_SessionGate ==
    /\ GateRules
    /\ [][(ChangePassword /\ admin_password' # admin_password)
              => ~SessionValid']_vars

\* C30, amended: the gate rules, and a change of the configured password
\* makes a session invalid that was valid under the replaced password, so
\* that the next render shows the login form.
C30_SessionGateForValidSessions ==
    /\ GateRules
    /\ [][(ChangePassword /\ SessionValid /\ admin_password' # admin_password)
              => ~SessionValid']_vars

\* C30 witness: a session that logged in under the password a and ran a
\* processing run was shown the login form after the password became b.
C30_Witness ==
    /\ password_input = Str(<<"a">>)
    /\ auth_backup # None
    /\ run_pc = "idle"
    /\ session_authenticated = Str(<<"True">>)
    /\ session_auth_hash = hash_password(Str(<<"a">>))
    /\ admin_password = Str(<<"b">>)
    /\ page = "login"

====
